---- MODULE Spec2Model ----
(***************************************************************************)
(* A model of the loxrs tree-walking interpreter (src/src/interpreter.rs,  *)
(* environment.rs, callable.rs, expressions.rs, statements.rs, main.rs).   *)
(*                                                                         *)
(* The interpreter is a recursive evaluator over an immutable AST.  The    *)
(* model keeps the recursion: Evaluate and Interpret are RECURSIVE         *)
(* operators that thread the mutable part of the Interpreter struct        *)
(* (environment, is_loop) and the console through every step, in the order *)
(* the code performs them.  The state machine around them is main.rs: an   *)
(* Interpreter is constructed once and `interpret` is called once (file    *)
(* mode) or once per input line (REPL mode).                               *)
(***************************************************************************)
EXTENDS Integers, Sequences, FiniteSets

(***************************************************************************)
(* Bounds of the model.                                                    *)
(***************************************************************************)
\* interpret calls (REPL lines) per session
MaxLines == 2
\* nesting depth of the generated block statements
MaxNest == 2
\* while iterations within one interpret call, after which the run is cut
\* off and recorded as not returning (a loop that does not end)
MaxSteps == 12
\* user-function calls in progress at once, beyond which the run is cut off
\* and recorded as not returning (a recursion that does not end)
MaxCallDepth == 3
\* loop counts of the generated nested loops
MaxLoop == 2
\* parameters of the generated functions and arguments of generated calls
MaxArgs == 2
\* largest number literal drawn as an input value
MaxNum == 2

\* digits in the integer part and in the fraction of a number lexeme
MaxDigits == 2

\* characters between the delimiters of a string literal
MaxText == 2

\* prefix operators before an operand
MaxPrefix == 2

\* well-formed statements before, and malformed statements from, the first
\* malformed one
MaxGood == 1

MaxBad == 2

\* `or` and `and` operators in one expression
MaxChain == 2

(***************************************************************************)
(* Values: expressions.rs, enum Literal.  A value is a record [t, v].      *)
(* Numbers are f64 in the code; the model draws small integers, on which   *)
(* f64 arithmetic is exact.  Strings are sequences of one-character        *)
(* strings.                                                                *)
(***************************************************************************)
Number(n) == [t |-> "Number", v |-> n]

String(s) == [t |-> "String", v |-> s]

Boolean(b) == [t |-> "Boolean", v |-> b]

Nil == [t |-> "Nil", v |-> 0]

\* callable.rs: Callable { parameters, func }.  func is a closure; the one
\* built by Stmt::Function captures `body` and nothing else, the one built
\* by Interpreter::new (clock) is native.
Callable(parameters, body, native) ==
    [t |-> "Callable", v |-> [parameters |-> parameters, body |-> body, native |-> native]]

\* Callable::arity
arity(callable) == Len(callable.v.parameters)

\* Literal::is_truthy
is_truthy(val) ==
    CASE val.t = "Boolean" -> val.v
      [] val.t = "Nil" -> FALSE
      [] OTHER -> TRUE

\* decimal digits of a natural number, as the host formats an integral f64
RECURSIVE Digits(_)
Digits(n) ==
    LET d == <<"0", "1", "2", "3", "4", "5", "6", "7", "8", "9">>
    IN  IF n < 10 THEN <<d[n + 1]>> ELSE Digits(n \div 10) \o <<d[(n % 10) + 1]>>

\* f64::to_string on an integral value
NumberToString(n) == IF n < 0 THEN <<"-">> \o Digits(-n) ELSE Digits(n)

\* impl fmt::Display for Literal
Display(val) ==
    CASE val.t = "Number" -> NumberToString(val.v)
      [] val.t = "String" -> val.v
      [] val.t = "Boolean" -> IF val.v THEN <<"t", "r", "u", "e">> ELSE <<"f", "a", "l", "s", "e">>
      [] val.t = "Callable" -> <<"<", "f", "n", ">">>
      [] val.t = "Nil" -> <<"n", "i", "l">>

(***************************************************************************)
(* Environment: environment.rs.  An Environment owns its parent (a Box),   *)
(* so an environment value is the whole chain: a non-empty sequence of     *)
(* frames, env[1] being self.values and Tail(env) the parent (the empty    *)
(* sequence is None).  Cloning an Environment copies the chain, which is   *)
(* what passing the sequence by value does.                                *)
(***************************************************************************)
EmptyFrame == [n \in {} |-> Nil]

\* HashMap::insert
Insert(frame, name, value) ==
    [n \in (DOMAIN frame) \cup {name} |-> IF n = name THEN value ELSE frame[n]]

\* Environment::new(Some(Box::new(parent)))
NewEnvironment(parent) == <<EmptyFrame>> \o parent

\* Environment::contains
Contains(env, name) == name \in DOMAIN env[1]

\* Environment::bind
RECURSIVE Bind(_, _, _)
Bind(env, name, value) ==
    IF Contains(env, name) THEN <<Insert(env[1], name, value)>> \o Tail(env)
    ELSE IF Len(env) > 1 THEN <<env[1]>> \o Bind(Tail(env), name, value)
    ELSE <<Insert(env[1], name, value)>>

\* Environment::get, Some/None as a record
RECURSIVE Get(_, _)
Get(env, name) ==
    IF Contains(env, name) THEN [some |-> TRUE, value |-> env[1][name]]
    ELSE IF Len(env) > 1 THEN Get(Tail(env), name)
    ELSE [some |-> FALSE, value |-> Nil]

(***************************************************************************)
(* The AST: expressions.rs enum Expr, statements.rs enum Stmt.  Operator   *)
(* tokens are named by their kind; line and column are not modelled.       *)
(***************************************************************************)
ELiteral(value) == [k |-> "Literal", value |-> value]

EUnary(operator, right) == [k |-> "Unary", operator |-> operator, right |-> right]

EBinary(left, operator, right) ==
    [k |-> "Binary", left |-> left, operator |-> operator, right |-> right]

EGrouping(expression) == [k |-> "Grouping", expression |-> expression]

EVariable(name) == [k |-> "Variable", name |-> name]

EAssign(name, value) == [k |-> "Assign", name |-> name, value |-> value]

ELogical(left, operator, right) ==
    [k |-> "Logical", left |-> left, operator |-> operator, right |-> right]

ECall(callee, arguments) == [k |-> "Call", callee |-> callee, arguments |-> arguments]

SPrint(expr) == [k |-> "Print", expr |-> expr]

SVar(name, expr) == [k |-> "Var", name |-> name, expr |-> expr]

SWhile(condition, body) == [k |-> "While", condition |-> condition, body |-> body]

SBreak == [k |-> "Break"]

SReturn(expr) == [k |-> "Return", expr |-> expr]

\* else_branch is an Option: the empty sequence is None, <<s>> is Some(s)
SConditional(condition, then_branch, else_branch) ==
    [k |-> "Conditional", condition |-> condition, then_branch |-> then_branch,
     else_branch |-> else_branch]

SBlock(statements) == [k |-> "Block", statements |-> statements]

SExpression(expr) == [k |-> "Expression", expr |-> expr]

\* name is an Option: the empty sequence is None, <<n>> is Some(n)
SFunction(name, params, body) ==
    [k |-> "Function", name |-> name, params |-> params, body |-> body]

(***************************************************************************)
(* The evaluator.  st is the part of the Interpreter struct and of the     *)
(* process that evaluation reads and writes:                               *)
(*   env      self.environment                                             *)
(*   is_loop  self.is_loop                                                 *)
(*   repl     self.repl                                                    *)
(*   out      the console: what println! and Error::report have written    *)
(*   now      the reading SystemTime::now() gives                          *)
(*   steps    while iterations left before the run is cut off              *)
(*   calls    user-function calls in progress                              *)
(*   hung     the run was cut off: it does not return                      *)
(* A Result<Literal, ()> is [ok, val, st].                                 *)
(***************************************************************************)
Ok(val, st) == [ok |-> TRUE, val |-> val, st |-> st]

Err(st) == [ok |-> FALSE, val |-> Nil, st |-> st]

\* the run was cut off: nothing after this point happens
Hang(st) == [ok |-> FALSE, val |-> Nil, st |-> [st EXCEPT !.hung = TRUE]]

\* println!("{val}") of Stmt::Print
PrintLn(st, val) == [st EXCEPT !.out = Append(@, [ch |-> "print", text |-> Display(val)])]

\* println!("{literal}") of Stmt::Expression in REPL mode
Echo(st, val) == [st EXCEPT !.out = Append(@, [ch |-> "echo", text |-> Display(val)])]

\* Error::report(.., ErrorType::RuntimeError, message)
Report(st, message) == [st EXCEPT !.out = Append(@, [ch |-> "RuntimeError", text |-> message])]

UndefinedVariable(name) == <<"Undefined variable '", name, "'">>

\* format!("Expected {} arguments but got {}.", expected, actual)
ExpectedArguments(expected, actual) ==
    <<"Expected ">> \o Digits(expected) \o <<" arguments but got ">> \o Digits(actual) \o <<".">>

\* evaluate, Expr::Unary (interpreter.rs 166-186), on the operand's result r
UnaryOp(operator, r) ==
    IF operator = "Minus"
    THEN IF ~r.ok THEN Err(r.st)
         ELSE IF r.val.t = "Number" THEN Ok(Number(-r.val.v), r.st)
         ELSE Err(Report(r.st, <<"Operator '-' can only be applied to numbers.">>))
    ELSE IF ~r.ok THEN Err(r.st)
         ELSE IF r.val.t = "Boolean" THEN Ok(Boolean(~r.val.v), r.st)
         ELSE IF r.val.t = "Nil" THEN Ok(Boolean(TRUE), r.st)
         ELSE Ok(Boolean(FALSE), r.st)

\* the (Number, Number) arms of the arithmetic and comparison operators
NumericOp(operator, l, r) ==
    CASE operator = "Minus" -> Number(l - r)
      [] operator = "Star" -> Number(l * r)
      [] operator = "Greater" -> Boolean(l > r)
      [] operator = "GreaterEqual" -> Boolean(l >= r)
      [] operator = "Less" -> Boolean(l < r)
      [] operator = "LessEqual" -> Boolean(l <= r)

\* the message of the (_, _) arm of the arithmetic and comparison operators
NumbersOnly(operator) ==
    CASE operator = "Minus" -> <<"Operator '-' can only be applied to numbers">>
      [] operator = "Star" -> <<"Operator '*' can only be applied to numbers">>
      [] operator \in {"Greater", "GreaterEqual"} -> <<"Operator '>' can only be applied to numbers">>
      [] operator \in {"Less", "LessEqual"} -> <<"Operator '<' can only be applied to numbers">>

\* Token::EqualEqual (interpreter.rs 318-338)
EqualEqual(left, right) ==
    CASE left.t = "Number" /\ right.t = "Number" -> left.v = right.v
      [] left.t = "Number" /\ right.t = "Boolean" -> right.v
      [] left.t = "String" /\ right.t = "String" -> left.v = right.v
      [] left.t = "String" /\ right.t = "Boolean" -> right.v
      [] left.t = "Boolean" /\ right.t = "Boolean" -> left.v = right.v
      [] left.t = "Boolean" /\ right.t = "Number" -> left.v
      [] left.t = "Boolean" /\ right.t = "String" -> left.v
      [] left.t = "Nil" /\ right.t = "Nil" -> TRUE
      [] OTHER -> FALSE

\* (mutant) `!=` that holds values of different types to be unequal
BangEqualByType(left, right) ==
    IF left.t = right.t THEN left.v # right.v ELSE TRUE

\* Token::BangEqual (interpreter.rs 339-363)
BangEqual(left, right) ==
    CASE left.t = "Number" /\ right.t = "Number" -> left.v # right.v
      [] left.t = "Number" /\ right.t = "Boolean" -> ~right.v
      [] left.t = "String" /\ right.t = "String" -> left.v # right.v
      [] left.t = "String" /\ right.t = "Boolean" -> ~right.v
      [] left.t = "Boolean" /\ right.t = "Boolean" -> left.v # right.v
      [] left.t = "Boolean" /\ right.t = "Number" -> ~left.v
      [] left.t = "Boolean" /\ right.t = "String" -> ~left.v
      [] left.t = "Nil" /\ right.t = "Nil" -> FALSE
      [] OTHER -> TRUE

\* evaluate, Expr::Binary, the match on the operator (interpreter.rs 195-372).
\* Token::Slash is not among the operators the model draws.
BinaryOp(operator, left, right, st) ==
    CASE operator \in {"Minus", "Star", "Greater", "GreaterEqual", "Less", "LessEqual"} ->
            IF left.t = "Number" /\ right.t = "Number"
            THEN Ok(NumericOp(operator, left.v, right.v), st)
            ELSE Err(Report(st, NumbersOnly(operator)))
      [] operator = "Plus" ->
            CASE left.t = "Number" /\ right.t = "Number" -> Ok(Number(left.v + right.v), st)
              [] left.t = "Number" /\ right.t = "String" ->
                    Ok(String(NumberToString(left.v) \o right.v), st)
              [] left.t = "String" /\ right.t = "String" -> Ok(String(left.v \o right.v), st)
              [] left.t = "String" /\ right.t = "Number" ->
                    Ok(String(left.v \o NumberToString(right.v)), st)
              [] OTHER ->
                    Err(Report(st, <<"Operator '+' can only be applied to numbers or strings">>))
      [] operator = "EqualEqual" -> Ok(Boolean(EqualEqual(left, right)), st)
      [] operator = "BangEqual" -> Ok(Boolean(BangEqual(left, right)), st)
      [] OTHER -> Err(Report(st, <<"Invalid operator.">>))

\* evaluate, Expr::Variable (interpreter.rs 375-392)
EvalVariable(name, st) ==
    LET found == Get(st.env, name)
    IN  IF found.some THEN Ok(found.value, st)
        ELSE Err(Report(st, UndefinedVariable(name)))

\* (mutant) assignment that creates the binding when the name is unbound
EvalAssignDefines(name, value, st) ==
    Ok(value, [st EXCEPT !.env = Bind(st.env, name, value)])

\* evaluate, Expr::Assign after the right-hand side gave `value`
\* (interpreter.rs 396-415)
EvalAssign(name, value, st) ==
    IF Get(st.env, name).some
    THEN Ok(value, [st EXCEPT !.env = Bind(st.env, name, value)])
    ELSE Err(Report(st, UndefinedVariable(name)))

\* evaluate, Expr::Logical after both operands gave values
\* (interpreter.rs 425-441)
LogicalOp(operator, left, right, st) ==
    IF operator = "Or"
    THEN IF is_truthy(left) THEN Ok(left, st) ELSE Ok(right, st)
    ELSE IF is_truthy(left) THEN Ok(right, st) ELSE Ok(left, st)

\* (mutant) arity check that rejects only too few arguments
TooFewArguments(actual, expected) == actual < expected

\* evaluate, Expr::Call: `if actual != expected` (interpreter.rs 460)
ArityMismatch(actual, expected) == actual # expected

\* the closure of Stmt::Function: `for (i, param) in parameters.iter().enumerate()
\* { environment.bind(param, args[i].clone()) }` (interpreter.rs 128-130)
RECURSIVE BindParameters(_, _, _, _)
BindParameters(env, parameters, args, i) ==
    IF i > Len(parameters) THEN env
    ELSE BindParameters(Bind(env, parameters[i], args[i]), parameters, args, i + 1)

\* a step of the statement loop of interpret: go on to the next statement
\* with r.st, or return r from interpret
Next_(r) == [flow |-> "next", r |-> r]

Return_(r) == [flow |-> "return", r |-> r]

(***************************************************************************)
(* evaluate and interpret call each other.  Where the code goes on with    *)
(* the result of a recursive call, the model hands that result to an       *)
(* operator for the rest of the arm, so every operator below is one        *)
(* stretch of straight-line code between two recursive calls.              *)
(***************************************************************************)
RECURSIVE Evaluate(_, _)
RECURSIVE Interpret(_, _)
RECURSIVE InterpretFrom(_, _, _, _)
RECURSIVE EvaluateArguments(_, _, _, _)
RECURSIVE WhileLoop(_, _, _)
RECURSIVE ExecStmt(_, _)

\* Expr::Binary: `let right = self.evaluate(right)?; match operator ..`
\* (interpreter.rs 193-195)
BinaryApply(operator, left, right) ==
    IF ~right.ok THEN Err(right.st) ELSE BinaryOp(operator, left, right.val, right.st)

\* Expr::Binary: `let left = self.evaluate(left)?` (interpreter.rs 192)
BinaryRight(expr, left) ==
    IF ~left.ok THEN Err(left.st)
    ELSE BinaryApply(expr.operator, left.val, Evaluate(expr.right, left.st))

\* Expr::Assign: `let value = self.evaluate(value)?` (interpreter.rs 394)
AssignValue(name, value) ==
    IF ~value.ok THEN Err(value.st) ELSE EvalAssign(name, value.val, value.st)

\* Expr::Logical: `let right = self.evaluate(right)?; match operator ..`
\* (interpreter.rs 423-425)
LogicalApply(operator, left, right) ==
    IF ~right.ok THEN Err(right.st) ELSE LogicalOp(operator, left, right.val, right.st)

\* Expr::Logical: `let left = self.evaluate(left)?` and the evaluation of
\* the right operand that follows it unconditionally (interpreter.rs 422-423)
LogicalRight(expr, left) ==
    IF ~left.ok THEN Err(left.st)
    ELSE LogicalApply(expr.operator, left.val, Evaluate(expr.right, left.st))

\* the closure of Stmt::Function after the body ran:
\* `interpreter.environment = original_env.clone(); res` (interpreter.rs 136-138)
CallReturn(st, res) ==
    IF res.st.hung THEN res
    ELSE [res EXCEPT !.st.env = st.env, !.st.calls = st.calls]

\* the closure Stmt::Function builds, called through Callable::call
\* (interpreter.rs 122-139, callable.rs 32-38); the native arm is clock
\* (interpreter.rs 36-43)
CallFunc(callable, args, st) ==
    IF callable.v.native THEN Ok(Number(st.now), st)
    ELSE IF st.calls = MaxCallDepth THEN Hang(st)
    ELSE CallReturn(st,
            Interpret(callable.v.body,
                      [st EXCEPT !.env = BindParameters(NewEnvironment(st.env),
                                                        callable.v.parameters, args, 1),
                                 !.calls = @ + 1]))

\* Expr::Call once the arguments are evaluated (interpreter.rs 457-469)
CallChecked(callee, a) ==
    IF ~a.ok THEN Err(a.st)
    ELSE IF ArityMismatch(Len(a.val), arity(callee))
    THEN Err(Report(a.st, ExpectedArguments(arity(callee), Len(a.val))))
    ELSE CallFunc(callee, a.val, a.st)

\* Expr::Call: `match callee` (interpreter.rs 450-479)
EvalCall(callee, arguments, st) ==
    IF callee.t = "Callable"
    THEN CallChecked(callee, EvaluateArguments(arguments, 1, <<>>, st))
    ELSE Err(Report(st, <<"Can only perform calls on functions and classes.">>))

\* Expr::Call: `let callee = self.evaluate(callee)?` (interpreter.rs 448)
CallCallee(expr, callee) ==
    IF ~callee.ok THEN Err(callee.st) ELSE EvalCall(callee.val, expr.arguments, callee.st)

\* `evaluated_arguments.push(self.interpret(vec![argument.clone()])?)`
\* (interpreter.rs 454)
ArgumentEvaluated(arguments, i, evaluated_arguments, r) ==
    IF ~r.ok THEN [ok |-> FALSE, val |-> evaluated_arguments, st |-> r.st]
    ELSE EvaluateArguments(arguments, i + 1, Append(evaluated_arguments, r.val), r.st)

\* `for argument in arguments { .. }` from argument i on (interpreter.rs 452-455)
EvaluateArguments(arguments, i, evaluated_arguments, st) ==
    IF i > Len(arguments) THEN [ok |-> TRUE, val |-> evaluated_arguments, st |-> st]
    ELSE ArgumentEvaluated(arguments, i, evaluated_arguments, Interpret(<<arguments[i]>>, st))

\* Interpreter::evaluate (interpreter.rs 163-482)
Evaluate(expr, st) ==
    CASE expr.k = "Literal" -> Ok(expr.value, st)
      [] expr.k = "Unary" -> UnaryOp(expr.operator, Evaluate(expr.right, st))
      [] expr.k = "Binary" -> BinaryRight(expr, Evaluate(expr.left, st))
      [] expr.k = "Grouping" -> Evaluate(expr.expression, st)
      [] expr.k = "Variable" -> EvalVariable(expr.name, st)
      [] expr.k = "Assign" -> AssignValue(expr.name, Evaluate(expr.value, st))
      [] expr.k = "Logical" -> LogicalRight(expr, Evaluate(expr.left, st))
      [] expr.k = "Call" -> CallCallee(expr, Evaluate(expr.callee, st))

\* interpret, Stmt::Print, `val` being self.evaluate(&expr) (interpreter.rs 61-65)
StmtPrint(val) ==
    IF ~val.ok THEN Return_(Err(val.st)) ELSE Next_(Ok(Nil, PrintLn(val.st, val.val)))

\* interpret, Stmt::Var (interpreter.rs 66-70)
StmtVar(name, val) ==
    IF ~val.ok THEN Return_(Err(val.st))
    ELSE Next_(Ok(Nil, [val.st EXCEPT !.env = Bind(val.st.env, name, val.val)]))

\* (mutant) a block that puts back the environment saved at its entry
BlockExitRestoresSaved(st, r) ==
    IF ~r.ok THEN Return_(Err(r.st)) ELSE Next_(Ok(Nil, [r.st EXCEPT !.env = st.env]))

\* Stmt::Block after `self.interpret(statements)`, st being the state at the
\* block's entry: `?`, then `self.environment =
\* *self.environment.parent.clone().unwrap()` (interpreter.rs 73-74)
BlockExit(st, r) ==
    IF ~r.ok THEN Return_(Err(r.st)) ELSE Next_(Ok(Nil, [r.st EXCEPT !.env = Tail(r.st.env)]))

\* interpret, Stmt::Block (interpreter.rs 71-75)
StmtBlock(s, st) ==
    BlockExit(st, Interpret(s.statements, [st EXCEPT !.env = NewEnvironment(st.env)]))

\* Stmt::Conditional: `self.interpret(vec![*branch])?` (interpreter.rs 84, 86)
BranchDone(r) == IF ~r.ok THEN Return_(Err(r.st)) ELSE Next_(Ok(Nil, r.st))

\* interpret, Stmt::Conditional (interpreter.rs 76-88)
StmtConditional(s, condition_val) ==
    IF ~condition_val.ok THEN Return_(Err(condition_val.st))
    ELSE IF is_truthy(condition_val.val)
    THEN BranchDone(Interpret(<<s.then_branch>>, condition_val.st))
    ELSE IF s.else_branch # <<>>
    THEN BranchDone(Interpret(<<s.else_branch[1]>>, condition_val.st))
    ELSE Next_(Ok(Nil, condition_val.st))

\* the while loop after its body ran: `if let Err(_) = self.interpret(..)
\* { break; }` (interpreter.rs 93-95)
WhileBody(condition, body, r) ==
    IF r.st.hung THEN [end |-> "hung", st |-> r.st]
    ELSE IF ~r.ok THEN [end |-> "body_err", st |-> r.st]
    ELSE WhileLoop(condition, body, r.st)

\* the while loop after its condition was evaluated (interpreter.rs 91-98)
WhileCondition(condition, body, condition_val) ==
    IF condition_val.st.hung THEN [end |-> "hung", st |-> condition_val.st]
    ELSE IF ~condition_val.ok THEN [end |-> "condition_err", st |-> condition_val.st]
    ELSE IF is_truthy(condition_val.val)
    THEN WhileBody(condition, body,
                   Interpret(<<body>>, [condition_val.st EXCEPT !.steps = @ - 1]))
    ELSE [end |-> "condition_false", st |-> condition_val.st]

\* the `while let Ok(condition_val) = self.evaluate(&condition)` loop
\* (interpreter.rs 91-99): the state it leaves and what ended it
WhileLoop(condition, body, st) ==
    IF st.steps = 0 THEN [end |-> "hung", st |-> [st EXCEPT !.hung = TRUE]]
    ELSE WhileCondition(condition, body, Evaluate(condition, st))

\* (mutant) a loop that passes the Err of its body on to its caller
WhileExitPropagates(loop) ==
    IF loop.end = "hung" THEN Return_(Err(loop.st))
    ELSE IF loop.end = "body_err" THEN Return_(Err([loop.st EXCEPT !.is_loop = FALSE]))
    ELSE Next_(Ok(Nil, [loop.st EXCEPT !.is_loop = FALSE]))

\* Stmt::While after the loop: `self.is_loop = false` and on to the next
\* statement (interpreter.rs 100)
WhileExit(loop) ==
    IF loop.end = "hung" THEN Return_(Err(loop.st))
    ELSE Next_(Ok(Nil, [loop.st EXCEPT !.is_loop = FALSE]))

\* interpret, Stmt::While (interpreter.rs 89-101)
StmtWhile(s, st) == WhileExit(WhileLoop(s.condition, s.body, [st EXCEPT !.is_loop = TRUE]))

\* interpret, Stmt::Break (interpreter.rs 102-113)
StmtBreak(st) ==
    IF st.is_loop THEN Return_(Err(st))
    ELSE Return_(Err(Report(st, <<"Can not break outside of a loop.">>)))

\* interpret, Stmt::Return (interpreter.rs 114-118)
StmtReturn(val) == IF ~val.ok THEN Return_(Err(val.st)) ELSE Return_(Ok(val.val, val.st))

\* interpret, Stmt::Function (interpreter.rs 119-147)
StmtFunction(s, st) ==
    IF s.name # <<>>
    THEN Next_(Ok(Nil, [st EXCEPT !.env = Bind(st.env, s.name[1], Callable(s.params, s.body, FALSE))]))
    ELSE Return_(Ok(Callable(s.params, s.body, FALSE), st))

\* interpret, Stmt::Expression (interpreter.rs 148-156)
StmtExpression(literal) ==
    IF ~literal.ok THEN Return_(Err(literal.st))
    ELSE IF literal.st.repl THEN Next_(Ok(literal.val, Echo(literal.st, literal.val)))
    ELSE Next_(literal)

\* interpret, `match stmt` (interpreter.rs 60-157)
ExecStmt(s, st) ==
    CASE s.k = "Print" -> StmtPrint(Evaluate(s.expr, st))
      [] s.k = "Var" -> StmtVar(s.name, Evaluate(s.expr, st))
      [] s.k = "Block" -> StmtBlock(s, st)
      [] s.k = "Conditional" -> StmtConditional(s, Evaluate(s.condition, st))
      [] s.k = "While" -> StmtWhile(s, st)
      [] s.k = "Break" -> StmtBreak(st)
      [] s.k = "Return" -> StmtReturn(Evaluate(s.expr, st))
      [] s.k = "Function" -> StmtFunction(s, st)
      [] s.k = "Expression" -> StmtExpression(Evaluate(s.expr, st))

\* the statement loop after one statement: a `return` (or `?`) leaves
\* interpret, anything else goes on; only Stmt::Expression writes `result`
StepTaken(statements, i, result, step) ==
    IF step.flow = "return" THEN step.r
    ELSE InterpretFrom(statements, i + 1,
                       IF statements[i].k = "Expression" THEN step.r.val ELSE result,
                       step.r.st)

\* interpret, `for stmt in statements` from statement i on, `result` being
\* the local of that name (interpreter.rs 57-160)
InterpretFrom(statements, i, result, st) ==
    IF i > Len(statements) THEN Ok(result, st)
    ELSE StepTaken(statements, i, result, ExecStmt(statements[i], st))

\* Interpreter::interpret (interpreter.rs 56-161)
Interpret(statements, st) == InterpretFrom(statements, 1, Nil, st)

(***************************************************************************)
(* The scanner: scanner.rs.  A source is a sequence of one-character       *)
(* strings (the model draws ASCII only, so a byte is a character); "NUL"   *)
(* stands for the "\0" that peek gives at the end.  s is the Scanner        *)
(* struct; start and current count from 0 as in the code; line and column  *)
(* are not modelled.  out is what Error::report has written, panicked says *)
(* that an unwrap() of the scan has aborted the process.                   *)
(***************************************************************************)
DigitChars == {"0", "1", "2", "3", "4", "5", "6", "7", "8", "9"}

\* char::is_alphanumeric, on the letters the model draws
is_alphanumeric(c) ==
    c \in DigitChars \cup {"a", "b", "c", "d", "e", "f", "g", "h", "i", "j", "k", "l", "m",
                           "n", "o", "p", "q", "r", "s", "t", "u", "v", "w", "x", "y", "z"}

\* enum Token: a kind and a value (that of an Identifier, a String or a
\* Number; the empty sequence for the other kinds); self.tokens.push(..)
\* is Append
Token(t, value) == [t |-> t, value |-> value]

\* Scanner::is_end
Scanner_is_end(s) == s.current >= Len(s.source)

\* Scanner::increment_current
increment_current(s) == [s EXCEPT !.current = @ + 1]

\* Scanner::error
Scanner_error(s, message) ==
    [s EXCEPT !.out = Append(@, [ch |-> "TokenError", text |-> message]), !.had_error = TRUE]

\* Scanner::look_ahead: chars().nth(current).unwrap() aborts at the end of
\* the source
look_ahead(s, char) ==
    IF s.current >= Len(s.source) THEN [matched |-> FALSE, s |-> [s EXCEPT !.panicked = TRUE]]
    ELSE IF s.source[s.current + 1] = char THEN [matched |-> TRUE, s |-> increment_current(s)]
    ELSE [matched |-> FALSE, s |-> s]

\* Scanner::peek
Scanner_peek(s, amount) ==
    IF s.current + amount >= Len(s.source) THEN <<"NUL">>
    ELSE SubSeq(s.source, s.current + 1, s.current + amount)

\* `while self.peek(1) != stop && !self.is_end() { self.increment_current() }`
\* of a comment (scanner.rs 218-220) and of scan_string (264-270)
RECURSIVE SkipTo(_, _)
SkipTo(s, stop) ==
    IF Scanner_peek(s, 1) # <<stop>> /\ ~Scanner_is_end(s) THEN SkipTo(increment_current(s), stop)
    ELSE s

\* `while <self.peek(1) is one of chars> { self.increment_current() }` of
\* scan_number (296-298, 302-304) and of scan_identifier (320-322)
RECURSIVE SkipOver(_, _)
SkipOver(s, digits) ==
    IF (digits /\ Scanner_peek(s, 1)[1] \in DigitChars)
        \/ (~digits /\ (is_alphanumeric(Scanner_peek(s, 1)[1]) \/ Scanner_peek(s, 1) = <<"_">>))
    THEN SkipOver(increment_current(s), digits)
    ELSE s

\* Scanner::scan_string: the loop, the increment, then the error or the
\* token; get(start + 1..current - 1).unwrap() aborts on a range that is not
\* in the source
scan_string(s0, specific) ==
    LET s == increment_current(SkipTo(s0, specific))
    IN  IF (IF s.current + 1 <= Len(s.source) THEN s.source[s.current + 1] ELSE "NUL") # specific
            /\ Scanner_is_end(s)
        THEN Scanner_error(s, <<"Unterminated string. Expected: ", specific>>)
        ELSE IF s.start + 1 <= s.current - 1 /\ s.current - 1 <= Len(s.source)
        THEN [s EXCEPT !.tokens =
                Append(@, Token("String", SubSeq(s.source, s.start + 2, s.current - 1)))]
        ELSE [s EXCEPT !.panicked = TRUE]

\* str::parse::<f64> of a lexeme digits [ "." digits ]: the integer n for an
\* integral value, and otherwise [n, d] for the decimal n / 10^d whose last
\* digit is not 0
ParseF64(lexeme) ==
    LET RECURSIVE Value(_), Trim(_)
        Value(ds) ==
            IF ds = <<>> THEN 0
            ELSE 10 * Value(SubSeq(ds, 1, Len(ds) - 1))
                    + (CHOOSE d \in 0..9 : Digits(d) = <<ds[Len(ds)]>>)
        Trim(l) == IF l[Len(l)] \in {"0", "."} /\ "." \in {l[j] : j \in 1..Len(l)}
                   THEN Trim(SubSeq(l, 1, Len(l) - 1)) ELSE l
        trimmed == Trim(lexeme)
        dot == {i \in 1..Len(trimmed) : trimmed[i] = "."}
    IN  IF dot = {} THEN Value(trimmed)
        ELSE LET i == CHOOSE j \in dot : TRUE
             IN  [n |-> Value(SubSeq(trimmed, 1, i - 1) \o SubSeq(trimmed, i + 1, Len(trimmed))),
                  d |-> Len(trimmed) - i]

\* Scanner::scan_number; peek(2).chars().nth(1).unwrap() aborts when peek
\* gives the one character "\0"
scan_number(s0) ==
    LET s == SkipOver(s0, TRUE)
        number(e) == [e EXCEPT !.tokens =
                        Append(@, Token("Number", ParseF64(SubSeq(e.source, e.start + 1, e.current))))]
    IN  IF Scanner_peek(s, 1) = <<".">>
        THEN IF Len(Scanner_peek(s, 2)) < 2 THEN [s EXCEPT !.panicked = TRUE]
             ELSE IF Scanner_peek(s, 2)[2] \in DigitChars
             THEN number(SkipOver(increment_current(s), TRUE))
             ELSE number(s)
        ELSE number(s)

\* `match ident` of scan_identifier (scanner.rs 326-400): the kind of the
\* token that the text gives
Keyword(ident) ==
    CASE ident = <<"a", "n", "d">> -> "And"
      [] ident = <<"c", "l", "a", "s", "s">> -> "Class"
      [] ident = <<"e", "l", "s", "e">> -> "Else"
      [] ident = <<"f", "a", "l", "s", "e">> -> "False"
      [] ident = <<"f", "u", "n">> -> "Fun"
      [] ident = <<"f", "o", "r">> -> "For"
      [] ident = <<"i", "f">> -> "If"
      [] ident = <<"n", "i", "l">> -> "Nil"
      [] ident = <<"o", "r">> -> "Or"
      [] ident = <<"p", "r", "i", "n", "t">> -> "Print"
      [] ident = <<"r", "e", "t", "u", "r", "n">> -> "Return"
      [] ident = <<"b", "r", "e", "a", "k">> -> "Break"
      [] ident = <<"s", "u", "p", "e", "r">> -> "Super"
      [] ident = <<"t", "h", "i", "s">> -> "This"
      [] ident = <<"t", "r", "u", "e">> -> "True"
      [] ident = <<"v", "a", "r">> -> "Var"
      [] ident = <<"w", "h", "i", "l", "e">> -> "While"
      [] OTHER -> "Identifier"

\* Scanner::scan_identifier.  The value of an Identifier is its text; the
\* interpreter's names are strings, and a one-letter text, and the text
\* clock, is that string.
scan_identifier(s0) ==
    LET s == SkipOver(s0, FALSE)
        ident == SubSeq(s.source, s.start + 1, s.current)
    IN  [s EXCEPT !.tokens =
            Append(@, IF Keyword(ident) # "Identifier" THEN Token(Keyword(ident), <<>>)
                      ELSE Token("Identifier",
                                 CASE Len(ident) = 1 -> ident[1]
                                   [] ident = <<"c", "l", "o", "c", "k">> -> "clock"
                                   [] OTHER -> ident))]

\* Scanner::scan_token
scan_token(s0) ==
    LET scan == s0.source[s0.current + 1]
        s == increment_current(s0)
        single == CASE scan = "(" -> "LeftParen" [] scan = ")" -> "RightParen"
                    [] scan = "{" -> "LeftBrace" [] scan = "}" -> "RightBrace"
                    [] scan = "," -> "Comma" [] scan = "." -> "Dot"
                    [] scan = ";" -> "Semicolon" [] scan = "?" -> "Question"
                    [] scan = ":" -> "Colon"
        two == CASE scan = "-" -> "MinusEqual" [] scan = "+" -> "PlusEqual"
                 [] scan = "*" -> "StarEqual" [] scan = "!" -> "BangEqual"
                 [] scan = "=" -> "EqualEqual" [] scan = "<" -> "LessEqual"
                 [] scan = ">" -> "GreaterEqual"
        one == CASE scan = "-" -> "Minus" [] scan = "+" -> "Plus" [] scan = "*" -> "Star"
                 [] scan = "!" -> "Bang" [] scan = "=" -> "Equal" [] scan = "<" -> "Less"
                 [] scan = ">" -> "Greater"
        \* the arms of an operator that `=` may follow (scanner.rs 122-215),
        \* on what look_ahead('=') gave: `-=`, `+=` and `*=` call
        \* increment_current() once more
        Operator(ahead) ==
            IF ahead.s.panicked THEN ahead.s
            ELSE IF ~ahead.matched THEN [ahead.s EXCEPT !.tokens = Append(@, Token(one, <<>>))]
            ELSE IF scan \in {"-", "+", "*"}
            THEN increment_current([ahead.s EXCEPT !.tokens = Append(@, Token(two, <<>>))])
            ELSE [ahead.s EXCEPT !.tokens = Append(@, Token(two, <<>>))]
        \* the arm of "/" (scanner.rs 216-227), on what look_ahead('/') gave
        Slash(ahead) ==
            IF ahead.s.panicked THEN ahead.s
            ELSE IF ahead.matched THEN SkipTo(ahead.s, "\n")
            ELSE [ahead.s EXCEPT !.tokens = Append(@, Token("Slash", <<>>))]
    IN  CASE scan \in {"(", ")", "{", "}", ",", ".", ";", "?", ":"} ->
                [s EXCEPT !.tokens = Append(@, Token(single, <<>>))]
          [] scan \in {"-", "+", "*", "!", "=", "<", ">"} -> Operator(look_ahead(s, "="))
          [] scan = "/" -> Slash(look_ahead(s, "/"))
          [] scan \in {"\"", "'"} -> scan_string(s, scan)
          [] scan \in {"\r", "\t", "\n", " "} -> s
          [] scan \in DigitChars -> scan_number(s)
          [] is_alphanumeric(scan) -> scan_identifier(s)
          [] OTHER -> Scanner_error(s, <<"Unexpected character: ", scan>>)

\* Scanner::scan_tokens: the loop (nothing follows an abort), then Ok(tokens)
\* with the Eof pushed, Err(()) when had_error, or the abort
scan_tokens(source) ==
    LET RECURSIVE Loop(_)
        Loop(s) ==
            IF s.panicked \/ Scanner_is_end(s) THEN s
            ELSE Loop(scan_token([s EXCEPT !.start = s.current]))
        Result(s) ==
            [kind |-> IF s.panicked THEN "Panic" ELSE IF s.had_error THEN "Err" ELSE "Ok",
             tokens |-> IF s.panicked \/ s.had_error THEN <<>>
                        ELSE Append(s.tokens, Token("Eof", <<>>)),
             out |-> s.out]
    IN  Result(Loop([source |-> source, start |-> 0, current |-> 0, tokens |-> <<>>,
                     had_error |-> FALSE, out |-> <<>>, panicked |-> FALSE]))

(***************************************************************************)
(* The parser: parser.rs.  p is the Parser struct (tokens, current,        *)
(* in_function) with out, what Error::report has written, and panicked,    *)
(* which says that tokens.get(current).unwrap() has aborted the process;   *)
(* tok is the token the last peek() gave.  A Result<Expr, ()> or           *)
(* Result<Stmt, ()> is [ok, node, p].  The checks of more than 255         *)
(* arguments or parameters are out of the reach of the programs drawn.     *)
(***************************************************************************)
Done(node, p) == [ok |-> TRUE, node |-> node, p |-> p]

Fail(p) == [ok |-> FALSE, node |-> <<>>, p |-> p]

\* Parser::peek, the token kept in p.tok: tokens.get(current).unwrap()
\* aborts beyond the last token
Parser_peek(p) ==
    IF p.current + 1 <= Len(p.tokens) THEN [p EXCEPT !.tok = p.tokens[p.current + 1]]
    ELSE [p EXCEPT !.tok = Token("None", <<>>), !.panicked = TRUE]

\* self.current += 1
Advance(p) == [p EXCEPT !.current = @ + 1]

\* self.error.report(.., ErrorType::ParserError, message)
ParserError(p, message) ==
    [p EXCEPT !.out = Append(@, [ch |-> "ParserError", text |-> message])]

\* (mutant) synchronize that does not stop at Eof
RECURSIVE synchronizeBeyondEof(_)
synchronizeBeyondEof(p) ==
    LET q == Parser_peek(p)
    IN  IF q.panicked THEN q
        ELSE IF q.tok.t \in {"Semicolon", "Class", "Fun", "Var", "For", "If", "While", "Print",
                             "Return"}
        THEN q
        ELSE synchronizeBeyondEof(Advance(q))

\* Parser::synchronize
RECURSIVE synchronize(_)
synchronize(p) ==
    LET q == Parser_peek(p)
    IN  IF q.panicked \/ q.tok.t = "Eof" THEN q
        ELSE IF q.tok.t \in {"Semicolon", "Class", "Fun", "Var", "For", "If", "While", "Print",
                             "Return"}
        THEN q
        ELSE synchronize(Advance(q))

\* Parser::check_semicolon: [ok, p]
check_semicolon(p, message) ==
    LET q == Parser_peek(p)
    IN  IF q.panicked THEN [ok |-> FALSE, p |-> q]
        ELSE IF q.tok.t = "Semicolon" THEN [ok |-> TRUE, p |-> Advance(q)]
        ELSE [ok |-> FALSE, p |-> synchronize(ParserError(q, message))]


\* self.<method>() for the methods of the parser that call one another
RECURSIVE Method(_, _)

\* Parser::primary
primary(p) ==
    LET q == Parser_peek(p)
        token == q.tok
        Grouping(r) ==
            IF ~r.ok THEN r
            ELSE IF Parser_peek(r.p).panicked THEN Fail(Parser_peek(r.p))
            ELSE IF Parser_peek(r.p).tok.t = "RightParen"
            THEN Done(EGrouping(r.node), Advance(Parser_peek(r.p)))
            ELSE Fail(synchronize(ParserError(Parser_peek(r.p),
                        <<"Expected ", Parser_peek(r.p).tok, " after expression.">>)))
    IN  CASE q.panicked -> Fail(q)
          [] token.t = "Number" -> Done(ELiteral(Number(token.value)), Advance(q))
          [] token.t = "String" -> Done(ELiteral(String(token.value)), Advance(q))
          [] token.t = "True" -> Done(ELiteral(Boolean(TRUE)), Advance(q))
          [] token.t = "False" -> Done(ELiteral(Boolean(FALSE)), Advance(q))
          [] token.t = "Nil" -> Done(ELiteral(Nil), Advance(q))
          [] token.t = "Identifier" -> Done(EVariable(token.value), Advance(q))
          [] token.t = "LeftParen" -> Grouping(Method("assignment", Advance(q)))
          [] OTHER -> Fail(ParserError(Advance(q), <<"Expected expression.">>))

\* Parser::call
call(p) ==
    LET RECURSIVE Loop(_), Arguments(_, _), Argument(_, _), End(_, _)
        \* `while !self.is_end()` over the arguments, in_function being true
        Arguments(arguments, q0) ==
            LET q == Parser_peek(q0)
            IN  IF q.panicked THEN Fail(q)
                ELSE IF q.tok.t \in {"Eof", "RightParen"} THEN Done(arguments, q)
                ELSE Argument(arguments, Method("parse_token", q))
        Argument(arguments, r) ==
            IF ~r.ok THEN r
            ELSE IF Parser_peek(r.p).panicked THEN Fail(Parser_peek(r.p))
            ELSE IF Parser_peek(r.p).tok.t = "RightParen"
            THEN Arguments(Append(arguments, r.node), r.p)
            ELSE IF Parser_peek(r.p).tok.t = "Comma"
            THEN Arguments(Append(arguments, r.node), Advance(r.p))
            ELSE Fail(synchronize(ParserError(Parser_peek(r.p),
                        <<"Expected ')' or ',' after argument.">>)))
        \* after the arguments: in_function = false, then the `)`
        End(callee, a) ==
            IF ~a.ok THEN a
            ELSE IF Parser_peek(a.p).tok.t = "RightParen"
            THEN Loop(Done(ECall(callee, a.node),
                           Advance([Parser_peek(a.p) EXCEPT !.in_function = FALSE])))
            ELSE Fail(synchronize(ParserError([Parser_peek(a.p) EXCEPT !.in_function = FALSE],
                        <<"Expected ')' after arguments.">>)))
        Loop(r) ==
            IF ~r.ok THEN r
            ELSE IF Parser_peek(r.p).panicked THEN Fail(Parser_peek(r.p))
            ELSE IF Parser_peek(r.p).tok.t = "LeftParen"
            THEN End(r.node, Arguments(<<>>, [Advance(r.p) EXCEPT !.in_function = TRUE]))
            ELSE r
    IN  Loop(Method("primary", p))

\* Parser::unary
unary(p) ==
    LET Operand(operator, r) == IF ~r.ok THEN r ELSE Done(EUnary(operator, r.node), r.p)
        Prefix(r) ==
            IF ~r.ok THEN r
            ELSE IF Parser_peek(r.p).panicked THEN Fail(Parser_peek(r.p))
            ELSE IF Parser_peek(r.p).tok.t \in {"Bang", "Minus"}
            THEN Operand(Parser_peek(r.p).tok.t, Method("unary", Advance(r.p)))
            ELSE r
    IN  Prefix(Method("call", p))

\* the loops of equality, comparison, term and factor (parser.rs 581-588,
\* 596-604, 612-620, 628-636) after the first operand gave r: level 1 is
\* equality, .. 4 is factor, whose operands are unary
RECURSIVE BinaryLoop(_, _)
BinaryLoop(level, r) ==
    LET operators == CASE level = 1 -> {"BangEqual", "EqualEqual"}
                       [] level = 2 -> {"Greater", "GreaterEqual", "Less", "LessEqual"}
                       [] level = 3 -> {"Minus", "Plus"}
                       [] level = 4 -> {"Slash", "Star"}
        Right(left, operator, right) ==
            IF ~right.ok THEN right ELSE Done(EBinary(left, operator, right.node), right.p)
    IN  IF ~r.ok THEN r
        ELSE IF Parser_peek(r.p).panicked THEN Fail(Parser_peek(r.p))
        ELSE IF Parser_peek(r.p).tok.t \in operators
        THEN BinaryLoop(level,
                Right(r.node, Parser_peek(r.p).tok.t,
                      CASE level = 1 -> Method("comparison", Advance(r.p))
                        [] level = 2 -> Method("term", Advance(r.p))
                        [] level = 3 -> Method("factor", Advance(r.p))
                        [] level = 4 -> Method("unary", Advance(r.p))))
        ELSE r

\* Parser::factor
factor(p) == BinaryLoop(4, Method("unary", p))

\* Parser::term
term(p) == BinaryLoop(3, Method("factor", p))

\* Parser::comparison
comparison(p) == BinaryLoop(2, Method("term", p))

\* Parser::equality
equality(p) == BinaryLoop(1, Method("comparison", p))

\* Parser::and and Parser::or, after the left operand gave r: one operator,
\* then one operand of the next level
LogicalRest(operator, r) ==
    LET Right(left, right) ==
            IF ~right.ok THEN right ELSE Done(ELogical(left, operator, right.node), right.p)
    IN  IF ~r.ok THEN r
        ELSE IF Parser_peek(r.p).panicked THEN Fail(Parser_peek(r.p))
        ELSE IF Parser_peek(r.p).tok.t = operator
        THEN Right(r.node,
                   IF operator = "And" THEN Method("equality", Advance(r.p)) ELSE Method("and", Advance(r.p)))
        ELSE r

\* Parser::and
and(p) == LogicalRest("And", Method("equality", p))

\* Parser::or
or(p) == LogicalRest("Or", Method("and", p))

\* Parser::assignment
assignment(p) ==
    LET Value(name, operator, r) ==
            IF ~r.ok THEN r
            ELSE IF operator = "Equal" THEN Done(EAssign(name, r.node), r.p)
            ELSE Done(EAssign(name, EBinary(EVariable(name), operator, r.node)), r.p)
        Target(r) ==
            IF ~r.ok \/ r.node.k # "Variable" THEN r
            ELSE IF Parser_peek(r.p).panicked THEN Fail(Parser_peek(r.p))
            ELSE CASE Parser_peek(r.p).tok.t = "Equal" ->
                        Value(r.node.name, "Equal", Method("assignment", Advance(r.p)))
                   [] Parser_peek(r.p).tok.t = "PlusEqual" ->
                        Value(r.node.name, "Plus", Method("assignment", Advance(r.p)))
                   [] Parser_peek(r.p).tok.t = "MinusEqual" ->
                        Value(r.node.name, "Minus", Method("assignment", Advance(r.p)))
                   [] Parser_peek(r.p).tok.t = "StarEqual" ->
                        Value(r.node.name, "Star", Method("assignment", Advance(r.p)))
                   [] OTHER -> r
    IN  Target(Method("or", p))

\* Parser::parse_token
parse_token(p) ==
    LET q == Parser_peek(p)
        Checked(node, c) == IF c.ok THEN Done(node, c.p) ELSE Fail(c.p)
        \* Token::Identifier
        Expression(r) ==
            IF ~r.ok THEN r
            ELSE IF r.p.in_function THEN Done(SExpression(r.node), r.p)
            ELSE Checked(SExpression(r.node),
                         check_semicolon(r.p, <<"Expect ';' after expression.">>))
        \* Token::Print, Token::Return and the end of Token::Var
        Statement(k, name, r, message) ==
            IF ~r.ok THEN r
            ELSE Checked(CASE k = "Print" -> SPrint(r.node)
                           [] k = "Return" -> SReturn(r.node)
                           [] k = "Var" -> SVar(name, r.node),
                         check_semicolon(r.p, message))
        \* Token::Var after the name, when no `=` follows: whatever
        \* check_semicolon gives but true, the initializer is parsed next
        Uninitialized(name, c) ==
            IF c.ok THEN Done(SVar(name, ELiteral(Nil)), c.p)
            ELSE Statement("Var", name, Method("assignment", c.p), <<"Expected ';' after expression.">>)
        Var(n) ==
            IF n.panicked THEN Fail(n)
            ELSE IF n.tok.t # "Identifier" THEN Fail(ParserError(Advance(n), <<"Expected identifier.">>))
            ELSE IF Parser_peek(Advance(n)).panicked THEN Fail(Parser_peek(Advance(n)))
            ELSE IF Parser_peek(Advance(n)).tok.t = "Equal"
            THEN Statement("Var", n.tok.value, Method("assignment", Advance(Advance(n))),
                           <<"Expected ';' after expression.">>)
            ELSE Uninitialized(n.tok.value,
                               check_semicolon(Advance(n), <<"Expected ';' after expression.">>))
        \* Token::LeftBrace
        RECURSIVE Block(_, _), BlockStmt(_, _)
        Block(stmts, b0) ==
            LET b == Parser_peek(b0)
            IN  IF b.panicked THEN Fail(b)
                ELSE IF b.tok.t = "RightBrace" THEN Done(SBlock(stmts), Advance(b))
                ELSE IF b.tok.t = "Eof"
                THEN Fail(synchronize(ParserError(b, <<"Expected '}' after block.">>)))
                ELSE BlockStmt(stmts, Method("parse_token", b))
        BlockStmt(stmts, r) == IF ~r.ok THEN r ELSE Block(Append(stmts, r.node), r.p)
        \* Token::If and Token::While after `(` and the condition
        Else(condition, then_branch, r) ==
            IF ~r.ok THEN r
            ELSE Done(SConditional(condition, then_branch, <<r.node>>), r.p)
        Then(condition, r) ==
            IF ~r.ok THEN r
            ELSE IF Parser_peek(r.p).panicked THEN Fail(Parser_peek(r.p))
            ELSE IF Parser_peek(r.p).tok.t = "Else"
            THEN Else(condition, r.node, Method("parse_token", Advance(r.p)))
            ELSE Done(SConditional(condition, r.node, <<>>), Parser_peek(r.p))
        Body(condition, r) == IF ~r.ok THEN r ELSE Done(SWhile(condition, r.node), r.p)
        Condition(k, r) ==
            IF ~r.ok THEN r
            ELSE IF Parser_peek(r.p).panicked THEN Fail(Parser_peek(r.p))
            ELSE IF Parser_peek(r.p).tok.t # "RightParen"
            THEN Fail(synchronize(ParserError(Parser_peek(r.p),
                        <<"Expected ')' after condition.">>)))
            ELSE IF k = "If" THEN Then(r.node, Method("parse_token", Advance(r.p)))
            ELSE Body(r.node, Method("parse_token", Advance(r.p)))
        Paren(k, n) ==
            IF n.panicked THEN Fail(n)
            ELSE IF n.tok.t = "LeftParen" THEN Condition(k, Method("assignment", Advance(n)))
            ELSE IF k = "If"
            THEN Fail(synchronize(ParserError(n, <<"Expected '(' after 'if'.">>)))
            ELSE Fail(ParserError(n, <<"Expected '(' after 'while'.">>))
        \* Token::For after `(`: the initializer, the condition, the
        \* increment, the `)`, the body and the lowering
        ForBody(init, condition, incr, r) ==
            IF ~r.ok THEN r
            ELSE LET body == SWhile(condition,
                                    IF incr # <<>>
                                    THEN SBlock(<<r.node, SExpression(incr[1])>>)
                                    ELSE r.node)
                 IN  Done(IF init # <<>> THEN SBlock(<<init[1], body>>) ELSE body, r.p)
        ForClose(init, condition, incr, c) ==
            IF c.panicked THEN Fail(c)
            ELSE IF c.tok.t = "RightParen"
            THEN ForBody(init, condition, incr, Method("parse_token", Advance(c)))
            ELSE Fail(synchronize(ParserError(c, <<"Expected ')' after loop increment.">>)))
        ForIncrementParsed(init, condition, r) ==
            IF ~r.ok THEN r ELSE ForClose(init, condition, <<r.node>>, Parser_peek(r.p))
        ForIncrement(init, condition, c) ==
            IF c.panicked THEN Fail(c)
            ELSE IF c.tok.t = "Semicolon"
            THEN ForClose(init, condition, <<>>, Parser_peek(Advance(c)))
            ELSE ForIncrementParsed(init, condition, Method("assignment", c))
        ForConditionChecked(init, condition, c) ==
            IF ~c.ok THEN Fail(c.p) ELSE ForIncrement(init, condition, Parser_peek(c.p))
        ForConditionParsed(init, r) ==
            IF ~r.ok THEN r
            ELSE ForConditionChecked(init, r.node,
                    check_semicolon(r.p, <<"Expected ';' after expression.">>))
        ForCondition(init, c) ==
            IF c.panicked THEN Fail(c)
            ELSE IF c.tok.t = "Semicolon"
            THEN ForIncrement(init, ELiteral(Boolean(TRUE)), Parser_peek(Advance(c)))
            ELSE ForConditionParsed(init, Method("assignment", c))
        ForInitParsed(r) == IF ~r.ok THEN r ELSE ForCondition(<<r.node>>, Parser_peek(r.p))
        For(n) ==
            IF n.panicked THEN Fail(n)
            ELSE IF n.tok.t # "LeftParen"
            THEN Fail(synchronize(ParserError(n, <<"Expected '(' after 'for'.">>)))
            ELSE IF Parser_peek(Advance(n)).tok.t = "Semicolon"
            THEN ForCondition(<<>>, Parser_peek(Advance(Advance(n))))
            ELSE ForInitParsed(Method("parse_token", Advance(n)))
        \* Token::Fun: the name, `(`, the parameters, `)` and the body
        FunBody(name, params, r) ==
            IF ~r.ok THEN r
            ELSE IF r.node.k = "Block" THEN Done(SFunction(name, params, r.node.statements), r.p)
            ELSE Fail(synchronize(ParserError(r.p,
                        <<"Expected block after function declaration.">>)))
        RECURSIVE Params(_, _, _), Param(_, _, _)
        Params(name, params, c) ==
            IF c.panicked THEN Fail(c)
            ELSE IF c.tok.t = "Eof"
            THEN Fail(synchronize(ParserError(c, <<"Expected ')' after parameters.">>)))
            ELSE IF c.tok.t = "RightParen" THEN FunBody(name, params, Method("parse_token", Advance(c)))
            ELSE IF c.tok.t = "Identifier"
            THEN Param(name, Append(params, c.tok.value), Parser_peek(Advance(c)))
            ELSE Param(name, params, Parser_peek(ParserError(c, <<"Expected identifier.">>)))
        Param(name, params, c) ==
            IF c.panicked THEN Fail(c)
            ELSE IF c.tok.t = "RightParen" THEN Params(name, params, c)
            ELSE IF c.tok.t = "Comma" THEN Params(name, params, Parser_peek(Advance(c)))
            ELSE Fail(synchronize(ParserError(c, <<"Expected ')' or ',' after parameter.">>)))
        FunParen(name, n) ==
            IF n.panicked THEN Fail(n)
            ELSE IF n.tok.t = "LeftParen" THEN Params(name, <<>>, Parser_peek(Advance(n)))
            ELSE Fail(synchronize(ParserError(n, <<"Expected '(' after function name.">>)))
        Fun(n) ==
            IF n.panicked THEN Fail(n)
            ELSE IF n.tok.t = "Identifier"
            THEN FunParen(<<n.tok.value>>, Parser_peek(Advance(n)))
            ELSE FunParen(<<>>, n)
        \* the arm `_`
        Default(r) == IF ~r.ok THEN r ELSE Done(SExpression(r.node), r.p)
    IN  CASE q.panicked -> Fail(q)
          [] q.tok.t = "Identifier" -> Expression(Method("assignment", q))
          [] q.tok.t = "Print" ->
                Statement("Print", <<>>, Method("assignment", Advance(q)), <<"Expected ';' after statement.">>)
          [] q.tok.t = "Break" ->
                Checked(SBreak, check_semicolon(Advance(q), <<"Expected ';' after statement.">>))
          [] q.tok.t = "Var" -> Var(Parser_peek(Advance(q)))
          [] q.tok.t = "LeftBrace" -> Block(<<>>, Advance(q))
          [] q.tok.t \in {"If", "While"} -> Paren(q.tok.t, Parser_peek(Advance(q)))
          [] q.tok.t = "For" -> For(Parser_peek(Advance(q)))
          [] q.tok.t = "Fun" -> Fun(Parser_peek(Advance(q)))
          [] q.tok.t = "Return" ->
                Statement("Return", <<>>, Method("assignment", Advance(q)),
                          <<"Expected ';' after return value.">>)
          [] OTHER -> Default(Method("assignment", q))

Method(method, p) ==
    CASE method = "parse_token" -> parse_token(p)
      [] method = "assignment" -> assignment(p)
      [] method = "or" -> or(p)
      [] method = "and" -> and(p)
      [] method = "equality" -> equality(p)
      [] method = "comparison" -> comparison(p)
      [] method = "term" -> term(p)
      [] method = "factor" -> factor(p)
      [] method = "unary" -> unary(p)
      [] method = "call" -> call(p)
      [] method = "primary" -> primary(p)

\* Parser::parse on a parser whose in_function is as the last parse left
\* it: Ok(stmts), Err(stmts) at the first statement that fails, or the abort
parse(tokens, in_function) ==
    LET Result(kind, stmts, p) ==
            [kind |-> kind, statements |-> stmts, out |-> p.out, in_function |-> p.in_function,
             current |-> p.current]
        RECURSIVE Loop(_, _), Step(_, _)
        Loop(stmts, p) ==
            IF Parser_peek(p).panicked THEN Result("Panic", stmts, p)
            ELSE IF Parser_peek(p).tok.t = "Eof" THEN Result("Ok", stmts, p)
            ELSE Step(stmts, Method("parse_token", p))
        Step(stmts, r) ==
            IF r.p.panicked THEN Result("Panic", stmts, r.p)
            ELSE IF ~r.ok THEN Result("Err", stmts, r.p)
            ELSE Loop(Append(stmts, r.node), r.p)
    IN  Loop(<<>>, [tokens |-> tokens, current |-> 0, in_function |-> in_function,
                    out |-> <<>>, panicked |-> FALSE, tok |-> Token("None", <<>>)])

(***************************************************************************)
(* The state machine: main.rs.  `run` builds an Interpreter with           *)
(* repl = false and calls interpret once; `run_repl` builds one with       *)
(* repl = true and calls interpret once per line, on the same Interpreter. *)
(*   environment, is_loop, repl   the fields of the Interpreter            *)
(*   line      the statement list handed to the last interpret call        *)
(*   out       what that call wrote to the console                         *)
(*   result    what that call returned ("Hung": it did not return)         *)
(*   lines     the interpret calls made so far                             *)
(* When the run starts from a source text (main.rs 24-40):                 *)
(*   source    the text handed to scan_tokens                              *)
(*   scanned   what scan_tokens returned                                   *)
(*   parsed    what parse returned, with the parser's in_function and      *)
(*             its cursor `current`                                        *)
(* and then `line` is the statement list of parsed when the run reached    *)
(* interpret, `out` is all that the run wrote, and `result` is "Panic"     *)
(* when the process aborted.                                               *)
(*   stdin     what the REPL's read_line (main.rs 53) has met: "open" while *)
(*             lines arrive, "eof" once a read has returned Ok(0) at the   *)
(*             end of the input, "failed" once a read has returned Err     *)
(***************************************************************************)
VARIABLES environment, is_loop, repl, line, out, result, lines, source, scanned, parsed, stdin

vars == <<environment, is_loop, repl, line, out, result, lines, source, scanned, parsed, stdin>>

\* the readings of the wall clock the model draws
Times == {0, 1}

\* Interpreter::new (interpreter.rs 25-54) on Environment::new(None)
InitialEnvironment ==
    LET environment_ == NewEnvironment(<<EmptyFrame>>)
    IN  <<Insert(environment_[1], "clock", Callable(<<>>, <<>>, TRUE))>> \o Tail(environment_)

Init ==
    /\ environment = InitialEnvironment
    /\ is_loop = FALSE
    /\ repl \in BOOLEAN
    /\ line = <<>>
    /\ out = <<>>
    /\ result = [kind |-> "None", val |-> Nil]
    /\ lines = 0
    /\ source = <<>>
    /\ scanned = [kind |-> "None", tokens |-> <<>>, out |-> <<>>]
    /\ parsed = [kind |-> "None", statements |-> <<>>, out |-> <<>>, in_function |-> FALSE,
                 current |-> 0]
    /\ stdin = "open"

\* main.rs 24-40 (run: one call) and 49-68 (run_repl: the loop goes on
\* after a line, whatever interpret returned)
CanRun ==
    /\ lines < (IF repl THEN MaxLines ELSE 1)
    /\ result.kind \notin {"Hung", "Panic"}
    /\ stdin = "open"

\* a whole program is run from a file: `prog <path>` (main.rs 71-81)
FileMode == CanRun /\ ~repl

\* the Interpreter and the console after an interpret call that gave r
Ran(statements, r) ==
    /\ environment' = r.st.env
    /\ is_loop' = r.st.is_loop
    /\ out' = r.st.out
    /\ result' = [kind |-> IF r.st.hung THEN "Hung" ELSE IF r.ok THEN "Ok" ELSE "Err",
                  val |-> r.val]
    /\ line' = statements
    /\ lines' = lines + 1
    /\ UNCHANGED repl

\* `_ = interpreter.interpret(statements)` (main.rs 38-39, 64)
Run(statements, now) ==
    /\ Ran(statements,
           Interpret(statements,
                     [env |-> environment, is_loop |-> is_loop, repl |-> repl, out |-> <<>>,
                      now |-> now, steps |-> MaxSteps, calls |-> 0, hung |-> FALSE]))
    /\ UNCHANGED <<source, scanned, parsed, stdin>>

\* the closure `run` (main.rs 24-40) on a source text: scan_tokens, then
\* parse on the tokens, then interpret on the statements; a scan or a parse
\* that fails returns from the closure, one that aborts ends the process
RunSource(text, now) ==
    LET Stopped(s, q) ==
            /\ out' = s.out \o q.out
            /\ result' = [kind |-> IF "Panic" \in {s.kind, q.kind} THEN "Panic" ELSE "None",
                          val |-> Nil]
            /\ line' = <<>>
            /\ lines' = lines + 1
            /\ UNCHANGED <<environment, is_loop, repl>>
        Parsed(s, q) ==
            /\ parsed' = q
            /\ IF q.kind # "Ok" THEN Stopped(s, q)
               ELSE Ran(q.statements,
                        Interpret(q.statements,
                                  [env |-> environment, is_loop |-> is_loop, repl |-> repl,
                                   out |-> <<>>, now |-> now, steps |-> MaxSteps, calls |-> 0,
                                   hung |-> FALSE]))
        Scanned(s) ==
            /\ source' = text
            /\ scanned' = s
            /\ IF s.kind # "Ok"
               THEN /\ UNCHANGED parsed
                    /\ Stopped(s, [kind |-> "None", out |-> <<>>])
               ELSE Parsed(s, parse(s.tokens, parsed.in_function))
    IN  Scanned(scan_tokens(text))

(***************************************************************************)
(* The inputs: the statement lists the parser hands to interpret.  They    *)
(* are drawn from families of programs, one action per family.             *)
(***************************************************************************)
VarNames == {"x", "y"}

InputValues == {Number(n) : n \in 1..MaxNum} \cup {Nil}

\* statements wrapped in d nested blocks
RECURSIVE Nest(_, _)
Nest(d, statements) == IF d = 0 THEN statements ELSE <<SBlock(Nest(d - 1, statements))>>

\* var name = value;
DeclareLine(name, value) == <<SVar(name, ELiteral(value))>>

\* name = value;
AssignLine(name, value) == <<SExpression(EAssign(name, ELiteral(value)))>>

\* print name;
PrintLine(name) == <<SPrint(EVariable(name))>>

\* { ... { name = value; } ... }, d blocks deep
BlockAssignLine(d, name, value) == Nest(d, AssignLine(name, value))

\* { ... { var name = value; } ... }, d blocks deep
BlockDeclareLine(d, name, value) == Nest(d, DeclareLine(name, value))

\* the text of a string literal
Chars(word) ==
    CASE word = "r" -> <<"r">>
      [] word = "n" -> <<"n">>
      [] word = "late" -> <<"l", "a", "t", "e">>
      [] word = "body" -> <<"b", "o", "d", "y">>
      [] word = "after" -> <<"a", "f", "t", "e", "r">>
      [] word = "done" -> <<"d", "o", "n", "e">>

Text(word) == ELiteral(String(Chars(word)))

Num(n) == ELiteral(Number(n))

\* name(arguments), each argument an expression
CallOf(name, arguments) ==
    ECall(EVariable(name), [i \in 1..Len(arguments) |-> SExpression(arguments[i])])

\* name = name + 1;
Increment(name) == SExpression(EAssign(name, EBinary(EVariable(name), "Plus", Num(1))))

ParameterNames == <<"x", "y", "z", "u", "w">>

\* fun f(x, y, ..) { print x; print y; .. }, k parameters
DefineLine(k) ==
    <<SFunction(<<"f">>, SubSeq(ParameterNames, 1, k),
                [i \in 1..k |-> SPrint(EVariable(ParameterNames[i]))])>>

ArgValues == {Number(1), Boolean(TRUE)}

ArgLists == UNION {[1..m -> ArgValues] : m \in 0..MaxArgs}

\* callee(args);
CallLine(callee, args) ==
    <<SExpression(CallOf(callee, [i \in 1..Len(args) |-> ELiteral(args[i])]))>>

\* fun makeCounter() { var n = 0; fun inc() { n = n + 1; return n; } return inc; }
\* var c = makeCounter(); print c();  (the print `calls` times)
CounterScript(calls) ==
    <<SFunction(<<"makeCounter">>, <<>>,
                <<SVar("n", Num(0)),
                  SFunction(<<"inc">>, <<>>, <<Increment("n"), SReturn(EVariable("n"))>>),
                  SReturn(EVariable("inc"))>>),
      SVar("c", CallOf("makeCounter", <<>>))>>
    \o [i \in 1..calls |-> SPrint(CallOf("c", <<>>))]

\* fun callee() { return p; } fun caller(p) { return callee(); } print caller(value);
ScopeScript(value) ==
    <<SFunction(<<"callee">>, <<>>, <<SReturn(EVariable("p"))>>),
      SFunction(<<"caller">>, <<"p">>, <<SReturn(CallOf("callee", <<>>))>>),
      SPrint(CallOf("caller", <<ELiteral(value)>>))>>

\* var x = 0; fun set() { x = value; } set(); print x;
AssignInFunctionScript(value) ==
    <<SVar("x", Num(0)),
      SFunction(<<"set">>, <<>>, <<SExpression(EAssign("x", ELiteral(value)))>>),
      SExpression(CallOf("set", <<>>)),
      SPrint(EVariable("x"))>>

LeftValues == {Boolean(TRUE), Boolean(FALSE), Nil, Number(1)}

\* the right operand: a call that prints, or a read of an unbound name
RightOperand(right) == IF right = "call" THEN CallOf("noisy", <<>>) ELSE EVariable("nosuch")

\* fun noisy() { print "n"; return true; } var t = left operator <right>;
LogicalScript(left, operator, right) ==
    <<SFunction(<<"noisy">>, <<>>, <<SPrint(Text("n")), SReturn(ELiteral(Boolean(TRUE)))>>),
      SVar("t", ELogical(ELiteral(left), operator, RightOperand(right)))>>

\* var x = outer; { .. { var x = inner; } .. } print x;
ShadowScript(d, outer, inner) ==
    DeclareLine("x", outer) \o BlockDeclareLine(d, "x", inner) \o PrintLine("x")

ReturnShapes == {"top", "if", "block", "while", "recursion"}

\* a function whose body returns from inside the construct `shape` names,
\* and a print of its call
ReturnScript(shape) ==
    LET late == <<SPrint(Text("late")), SReturn(Num(2))>>
        body ==
            CASE shape = "top" -> <<SReturn(Num(1))>> \o late
              [] shape = "if" ->
                    <<SConditional(ELiteral(Boolean(TRUE)), SReturn(Num(1)), <<>>)>> \o late
              [] shape = "block" -> <<SBlock(<<SReturn(Num(1))>>)>> \o late
              [] shape = "while" ->
                    <<SWhile(ELiteral(Boolean(TRUE)), SBlock(<<SReturn(Num(1))>>))>> \o late
              [] shape = "recursion" ->
                    <<SConditional(EBinary(EVariable("n"), "LessEqual", Num(0)),
                                   SReturn(Num(1)), <<>>),
                      SReturn(CallOf("f", <<EBinary(EVariable("n"), "Minus", Num(1))>>))>>
    IN  IF shape = "recursion"
        THEN <<SFunction(<<"f">>, <<"n">>, body), SPrint(CallOf("f", <<Num(1)>>))>>
        ELSE <<SFunction(<<"f">>, <<>>, body), SPrint(CallOf("f", <<>>))>>

ErrorShapes == {"plain", "condition", "body"}

\* a RuntimeError (a read of the unbound name nosuch) in a statement, in a
\* while condition or in a while body, and a print after it
ErrorScript(shape) ==
    CASE shape = "plain" -> <<SPrint(EVariable("nosuch")), SPrint(Text("after"))>>
      [] shape = "condition" ->
            <<SWhile(EVariable("nosuch"), SBlock(<<SPrint(Text("body"))>>)),
              SPrint(Text("after"))>>
      [] shape = "body" ->
            <<SVar("i", Num(0)),
              SWhile(EBinary(EVariable("i"), "Less", Num(2)),
                     SBlock(<<Increment("i"), SPrint(EVariable("nosuch"))>>)),
              SPrint(Text("after"))>>

\* var i = 0;
\* while (i < n) {
\*   var j = 0;
\*   while (j < m) { if (j == k) break; print j; j = j + 1; }
\*   print "r"; i = i + 1;
\* }
\* print "done";
\* (braced: the break stands in a block of its own, `if (j == k) { break; }`)
NestedLoopsScript(n, m, k, braced) ==
    LET break == IF braced THEN SBlock(<<SBreak>>) ELSE SBreak
        inner ==
            SWhile(EBinary(EVariable("j"), "Less", Num(m)),
                   SBlock(<<SConditional(EBinary(EVariable("j"), "EqualEqual", Num(k)),
                                         break, <<>>),
                            SPrint(EVariable("j")),
                            Increment("j")>>))
    IN  <<SVar("i", Num(0)),
          SWhile(EBinary(EVariable("i"), "Less", Num(n)),
                 SBlock(<<SVar("j", Num(0)), inner, SPrint(Text("r")), Increment("i")>>)),
          SPrint(Text("done"))>>

AssignShapes == {"function", "if", "while"}

\* an assignment to x, d blocks deep, inside a function body, an if branch
\* or a loop body, and a print of x after it
NestedAssignScript(shape, d, value) ==
    LET assign == BlockAssignLine(d, "x", value)
    IN  CASE shape = "function" ->
                <<SFunction(<<"g">>, <<>>,
                            <<SVar("x", Num(0))>> \o assign \o <<SReturn(EVariable("x"))>>),
                  SPrint(CallOf("g", <<>>))>>
          [] shape = "if" ->
                <<SVar("x", Num(0)),
                  SConditional(ELiteral(Boolean(TRUE)), assign[1], <<>>),
                  SPrint(EVariable("x"))>>
          [] shape = "while" ->
                <<SVar("x", Num(0)),
                  SVar("i", Num(0)),
                  SWhile(EBinary(EVariable("i"), "Less", Num(1)),
                         SBlock(<<Increment("i")>> \o assign)),
                  SPrint(EVariable("x"))>>

\* the kinds of statement that end a LastValueScript
LastKinds == {"expression", "print", "var", "block", "if", "while", "function"}

\* var x = 0; x = value; and then a last statement of the kind `last` (for
\* "expression", x = value; is the last statement)
LastValueScript(value, last) ==
    <<SVar("x", Num(0))>> \o AssignLine("x", value)
        \o CASE last = "expression" -> <<>>
              [] last = "print" -> PrintLine("x")
              [] last = "var" -> DeclareLine("y", Number(1))
              [] last = "block" -> <<SBlock(<<>>)>>
              [] last = "if" -> <<SConditional(ELiteral(Boolean(TRUE)), SBlock(<<>>), <<>>)>>
              [] last = "while" -> <<SWhile(ELiteral(Boolean(FALSE)), SBlock(<<>>))>>
              [] last = "function" -> <<SFunction(<<"g">>, <<>>, <<>>)>>

(***************************************************************************)
(* The source texts: what `run` reads from the file (main.rs 74).  They    *)
(* are drawn from families, each a text with a few varying parts.          *)
(***************************************************************************)
\* head and then a last character: an operator or a `.` ends the source
EndingText(head, last) == head \o <<last>>

\* a number lexeme: digits, and `.` with digits when frac is not empty; then
\* nothing or the newline that ends a file
NumberText(int, frac, ending) ==
    int \o (IF frac = <<>> THEN <<>> ELSE <<".">> \o frac) \o ending

\* head, then a string literal with the delimiter quote (closed or not), then
\* tail
StringText(head, quote, body, closed, tail) ==
    head \o <<quote>> \o body \o (IF closed THEN <<quote>> ELSE <<>>) \o tail

\* a+=1 and the like
CompoundText(operator, digit, tail) == <<"a", operator, "=">> \o Digits(digit) \o tail

\* `print 1;` good times and then `print 1 `, which lacks its `;`, bad times
StatementsText(good, bad) ==
    LET RECURSIVE Copies(_, _)
        Copies(text, n) == IF n = 0 THEN <<>> ELSE text \o Copies(text, n - 1)
    IN  Copies(<<"p", "r", "i", "n", "t", " ", "1", ";">>, good)
            \o Copies(<<"p", "r", "i", "n", "t", " ", "1", " ">>, bad)

\* for (var i=0; i<2; i=i+1) break; with each of the three clauses present
\* or absent, and with or without a `;` after the third
ForText(initializer, condition, increment, semicolon) ==
    <<"f", "o", "r", "(">>
        \o (IF initializer THEN <<"v", "a", "r", " ", "i", "=", "0", ";">> ELSE <<";">>)
        \o (IF condition THEN <<"i", "<", "2", ";">> ELSE <<";">>)
        \o (IF increment THEN <<"i", "=", "i", "+", "1">> ELSE <<>>)
        \o (IF semicolon THEN <<";">> ELSE <<>>)
        \o <<")", "b", "r", "e", "a", "k", ";">>

\* print !-1; and the like: prefix operators and an operand
PrefixText(operators, operand) ==
    <<"p", "r", "i", "n", "t", " ">> \o operators \o operand \o <<";">>

\* print 2-1; print 2-1-1; and the like: operands joined by one operator
BinaryText(operator, operands) ==
    LET RECURSIVE Joined(_)
        Joined(i) == IF i > Len(operands) THEN <<>>
                     ELSE <<operator>> \o Digits(operands[i]) \o Joined(i + 1)
    IN  <<"p", "r", "i", "n", "t", " ">> \o Digits(operands[1]) \o Joined(2) \o <<";">>

\* print 1 or 2 and 3; and the like: the operands 1, 2, .. joined by the
\* operators, each `or` or `and`
LogicalText(operators) ==
    LET RECURSIVE Joined(_)
        Joined(i) == IF i > Len(operators) THEN <<>>
                     ELSE <<" ">> \o operators[i] \o <<" ">> \o Digits(i + 1) \o Joined(i + 1)
    IN  <<"p", "r", "i", "n", "t", " ", "1">> \o Joined(1) \o <<";">>

LogicalOperators == UNION {[1..k -> {<<"o", "r">>, <<"a", "n", "d">>}] : k \in 1..MaxChain}

\* the expression that the word names, as a text
LeadText(lead) ==
    CASE lead = "identifier" -> <<"a">>
      [] lead = "number" -> <<"1">>
      [] lead = "string" -> <<"'", "b", "'">>
      [] lead = "true" -> <<"t", "r", "u", "e">>
      [] lead = "false" -> <<"f", "a", "l", "s", "e">>
      [] lead = "nil" -> <<"n", "i", "l">>
      [] lead = "paren" -> <<"(", "1", ")">>
      [] lead = "other number" -> <<"2">>
      [] lead = "other string" -> <<"'", "c", "'">>
      [] lead = "callable" -> <<"c", "l", "o", "c", "k">>

Leads == {"identifier", "number", "string", "true", "false", "nil", "paren"}

\* a; print 1; and the like: an expression statement, then a print
ExpressionText(lead) == LeadText(lead) \o <<";", "p", "r", "i", "n", "t", " ", "1", ";">>

\* while(true){while(false)print 1;break;}print 2; with or without the inner
\* loop before the break
BreakText(inner) ==
    <<"w", "h", "i", "l", "e", "(", "t", "r", "u", "e", ")", "{">>
        \o (IF inner
            THEN <<"w", "h", "i", "l", "e", "(", "f", "a", "l", "s", "e", ")",
                   "p", "r", "i", "n", "t", " ", "1", ";">>
            ELSE <<>>)
        \o <<"b", "r", "e", "a", "k", ";", "}", "p", "r", "i", "n", "t", " ", "2", ";">>

\* the argument that the word names, as a text: 1, x or g(1)
ArgumentText(argument) ==
    CASE argument = "number" -> <<"1">>
      [] argument = "identifier" -> <<"x">>
      [] argument = "call" -> <<"g", "(", "1", ")">>

\* f(1); f(x, 1); f(g(1), x); and the like: a call of one or two arguments
CallText(arguments) ==
    <<"f", "(">> \o ArgumentText(arguments[1])
        \o (IF Len(arguments) > 1 THEN <<",">> \o ArgumentText(arguments[2]) ELSE <<>>)
        \o <<")", ";">>

ArgumentKinds == UNION {[1..k -> {"number", "identifier", "call"}] : k \in 1..2}

Comparands ==
    {"number", "other number", "string", "other string", "true", "false", "nil", "callable"}

\* print 1==true;print 1!=true; and the like: the two operands compared by
\* `==` and then by `!=`
CompareText(left, right) ==
    <<"p", "r", "i", "n", "t", " ">> \o LeadText(left) \o <<"=", "=">> \o LeadText(right)
        \o <<";", "p", "r", "i", "n", "t", " ">> \o LeadText(left) \o <<"!", "=">>
        \o LeadText(right) \o <<";">>

\* {var x=1;}print x; with the declaration d blocks deep
BlockVarText(d) ==
    [i \in 1..d |-> "{"] \o <<"v", "a", "r", " ", "x", "=", "1", ";">> \o [i \in 1..d |-> "}"]
        \o <<"p", "r", "i", "n", "t", " ", "x", ";">>

Programs == {"var", "fun", "if", "while", "for", "call", "return", "print"}

\* one statement of each kind:
\*   var x=1;
\*   fun f(a,b){print a;}
\*   if(true)print 1;else print 2;
\*   while(true){break;}
\*   for(var i=0;i<2;i=i+1)break;
\*   f(1,x);
\*   return (1);
\*   print (1);
ProgramText(program) ==
    CASE program = "var" ->
            <<"v", "a", "r", " ", "x", "=", "1", ";">>
      [] program = "fun" ->
            <<"f", "u", "n", " ", "f", "(", "a", ",", "b", ")", "{", "p", "r", "i",
             "n", "t", " ", "a", ";", "}">>
      [] program = "if" ->
            <<"i", "f", "(", "t", "r", "u", "e", ")", "p", "r", "i", "n", "t", " ",
             "1", ";", "e", "l", "s", "e", " ", "p", "r", "i", "n", "t", " ", "2",
             ";">>
      [] program = "while" ->
            <<"w", "h", "i", "l", "e", "(", "t", "r", "u", "e", ")", "{", "b", "r",
             "e", "a", "k", ";", "}">>
      [] program = "for" ->
            <<"f", "o", "r", "(", "v", "a", "r", " ", "i", "=", "0", ";", "i", "<",
             "2", ";", "i", "=", "i", "+", "1", ")", "b", "r", "e", "a", "k", ";">>
      [] program = "call" ->
            <<"f", "(", "1", ",", "x", ")", ";">>
      [] program = "return" ->
            <<"r", "e", "t", "u", "r", "n", " ", "(", "1", ")", ";">>
      [] program = "print" ->
            <<"p", "r", "i", "n", "t", " ", "(", "1", ")", ";">>

\* the first n characters of a program: a source that ends anywhere
TruncatedText(program, n) == SubSeq(ProgramText(program), 1, n)

Operands == UNION {[1..k -> 1..MaxNum] : k \in 2..3}

PrefixOperators == UNION {[1..k -> {"!", "-"}] : k \in 1..MaxPrefix}

DigitTexts == UNION {[1..k -> {"0", "1"}] : k \in 1..MaxDigits}

BodyTexts == UNION {[1..k -> {"a", "b"}] : k \in 0..MaxText}

Texts ==
    {EndingText(head, last) :
        head \in {<<>>, <<"a">>, <<"1">>},
        last \in {"=", "!", "<", ">", "+", "-", "*", "/", "."}}
    \cup {NumberText(int, frac, ending) :
            int \in DigitTexts, frac \in DigitTexts \cup {<<>>}, ending \in {<<>>, <<"\n">>}}
    \cup {StringText(head, quote, body, closed, tail) :
            head \in {<<>>, <<"p", "r", "i", "n", "t", " ">>}, quote \in {"\"", "'"},
            body \in BodyTexts, closed \in BOOLEAN, tail \in {<<>>, <<";">>}}
    \cup {CompoundText(operator, digit, tail) :
            operator \in {"+", "-", "*"}, digit \in 1..MaxNum, tail \in {<<>>, <<";">>}}
    \cup {StatementsText(good, bad) : good \in 0..MaxGood, bad \in 0..MaxBad}
    \cup {ForText(initializer, condition, increment, semicolon) :
            initializer \in BOOLEAN, condition \in BOOLEAN, increment \in BOOLEAN,
            semicolon \in BOOLEAN}
    \cup {PrefixText(operators, operand) :
            operators \in PrefixOperators, operand \in {<<"1">>, <<"t", "r", "u", "e">>}}
    \cup {BinaryText(operator, operands) : operator \in {"+", "-", "*"}, operands \in Operands}
    \cup UNION {{TruncatedText(program, n) : n \in 1..Len(ProgramText(program))} :
                    program \in Programs}
    \cup {BlockVarText(d) : d \in 1..MaxNest}
    \cup {CompareText(left, right) : left \in Comparands, right \in Comparands}
    \cup {CallText(arguments) : arguments \in ArgumentKinds}
    \cup {BreakText(inner) : inner \in BOOLEAN}
    \cup {ExpressionText(lead) : lead \in Leads}
    \cup {LogicalText(operators) : operators \in LogicalOperators}

(***************************************************************************)
(* The actions: one interpret call on a program of one family.  The        *)
(* one-statement lines are what a REPL session is made of (they are also   *)
(* legal one-line files); the scripts are whole programs, run from a file. *)
(***************************************************************************)
RunDeclare ==
    CanRun /\ \E name \in VarNames, value \in InputValues : Run(DeclareLine(name, value), 0)

RunAssign ==
    CanRun /\ \E name \in VarNames \cup {"clock"}, value \in InputValues :
        Run(AssignLine(name, value), 0)

RunPrint ==
    CanRun /\ \E name \in VarNames : Run(PrintLine(name), 0)

RunBlockAssign ==
    CanRun /\ \E d \in 1..MaxNest, name \in VarNames, value \in InputValues :
        Run(BlockAssignLine(d, name, value), 0)

RunBlockDeclare ==
    CanRun /\ \E d \in 1..MaxNest, name \in VarNames, value \in InputValues :
        Run(BlockDeclareLine(d, name, value), 0)

RunDefine ==
    CanRun /\ \E k \in 0..MaxArgs : Run(DefineLine(k), 0)

RunCall ==
    CanRun /\ \E args \in ArgLists : Run(CallLine("f", args), 0)

RunClock ==
    CanRun /\ \E args \in ArgLists, now \in Times : Run(CallLine("clock", args), now)

RunCounter == FileMode /\ \E calls \in 1..(MaxLoop + 1) : Run(CounterScript(calls), 0)

RunScope == FileMode /\ \E value \in InputValues : Run(ScopeScript(value), 0)

RunAssignInFunction ==
    FileMode /\ \E value \in InputValues : Run(AssignInFunctionScript(value), 0)

RunLogical ==
    FileMode /\ \E left \in LeftValues, operator \in {"And", "Or"}, right \in {"call", "read"} :
        Run(LogicalScript(left, operator, right), 0)

RunShadow ==
    FileMode /\ \E d \in 1..MaxNest, outer \in InputValues, inner \in InputValues :
        Run(ShadowScript(d, outer, inner), 0)

RunReturn == FileMode /\ \E shape \in ReturnShapes : Run(ReturnScript(shape), 0)

RunError == FileMode /\ \E shape \in ErrorShapes : Run(ErrorScript(shape), 0)

RunNestedLoops ==
    FileMode /\ \E n \in 1..MaxLoop, m \in 0..MaxLoop, k \in 0..MaxLoop, braced \in BOOLEAN :
        Run(NestedLoopsScript(n, m, k, braced), 0)

RunNestedAssign ==
    FileMode /\ \E shape \in AssignShapes, d \in 1..MaxNest, value \in InputValues :
        Run(NestedAssignScript(shape, d, value), 0)

RunLastValue ==
    FileMode /\ \E value \in InputValues, last \in LastKinds :
        Run(LastValueScript(value, last), 0)

\* `run(read_to_string(&path))` (main.rs 73-75)
RunText == FileMode /\ \E text \in Texts : RunSource(text, 0) /\ UNCHANGED stdin

\* run_repl, an iteration whose read_line meets the end of the input: it
\* returns Ok(0) and leaves `line` empty (main.rs 52-53), so the iteration
\* scans, parses and interprets the empty line (54-64) and the loop goes on
ReadEndOfFile ==
    /\ repl
    /\ lines < MaxLines
    /\ result.kind \notin {"Hung", "Panic"}
    /\ stdin \in {"open", "eof"}
    /\ stdin' = "eof"
    /\ RunSource(<<>>, 0)

\* run_repl, an iteration whose read_line returns Err: `break` (main.rs
\* 65-67)
ReadFailure ==
    /\ repl
    /\ CanRun
    /\ stdin' = "failed"
    /\ UNCHANGED <<environment, is_loop, repl, line, out, result, lines, source, scanned, parsed>>

Next ==
    \/ RunDeclare
    \/ RunAssign
    \/ RunPrint
    \/ RunBlockAssign
    \/ RunBlockDeclare
    \/ RunDefine
    \/ RunCall
    \/ RunClock
    \/ RunCounter
    \/ RunScope
    \/ RunAssignInFunction
    \/ RunLogical
    \/ RunShadow
    \/ RunReturn
    \/ RunError
    \/ RunNestedLoops
    \/ RunNestedAssign
    \/ RunLastValue
    \/ RunText
    \/ ReadEndOfFile
    \/ ReadFailure

Spec == Init /\ [][Next]_vars

\* the lines Stmt::Print wrote, in order
RECURSIVE Prints(_)
Prints(o) ==
    IF o = <<>> THEN <<>>
    ELSE IF o[1].ch = "print" THEN <<o[1].text>> \o Prints(Tail(o))
    ELSE Prints(Tail(o))

\* the messages Error::report wrote, in order
RECURSIVE Reports(_)
Reports(o) ==
    IF o = <<>> THEN <<>>
    ELSE IF o[1].ch = "RuntimeError" THEN <<o[1].text>> \o Reports(Tail(o))
    ELSE Reports(Tail(o))

(***************************************************************************)
(* The claims.                                                             *)
(***************************************************************************)

\* C1: a function returned by a factory keeps its captured variable across
\* calls: after `var c = makeCounter();` the successive calls c() return
\* 1, 2, 3, .. and none fails with an undefined variable.
C1_CounterKeepsCapturedVariable ==
    \A calls \in 1..(MaxLoop + 1) :
        line = CounterScript(calls) =>
            /\ result.kind = "Ok"
            /\ Reports(out) = <<>>
            /\ Prints(out) = [i \in 1..calls |-> Digits(i)]

\* C2: the frame of a call has the definition-time environment as parent:
\* a name bound only in the caller's frame (the caller's parameter p) is not
\* visible in the callee, and reading it there is a RuntimeError.
C2_CalleeDoesNotSeeCallerFrame ==
    \A value \in InputValues :
        line = ScopeScript(value) =>
            /\ result.kind = "Err"
            /\ Reports(out) = <<UndefinedVariable("p")>>
            /\ Prints(out) = <<>>

\* C3: an assignment made in a function body to a variable declared outside
\* the function is visible to the caller after the call returns.
C3_AssignmentInFunctionVisibleToCaller ==
    \A value \in InputValues :
        line = AssignInFunctionScript(value) =>
            /\ result.kind = "Ok"
            /\ Get(environment, "x") = [some |-> TRUE, value |-> value]
            /\ Prints(out) = <<Display(value)>>

\* the left operand alone decides the logical expression
Decided(left, operator) ==
    \/ operator = "And" /\ ~is_truthy(left)
    \/ operator = "Or" /\ is_truthy(left)

\* C4: logical operators short-circuit: when the left operand of `and` is
\* falsey, or that of `or` is truthy, the right operand is not evaluated, so
\* neither its print nor its runtime error happens.
C4_LogicalShortCircuits ==
    \A left \in LeftValues, operator \in {"And", "Or"}, right \in {"call", "read"} :
        (line = LogicalScript(left, operator, right) /\ Decided(left, operator)) =>
            /\ result.kind = "Ok"
            /\ out = <<>>
            /\ Get(environment, "t") = [some |-> TRUE, value |-> left]

\* C5: `var x = v` in an inner block shadows an outer x and does not modify
\* it: after the block the outer x has the value it had before the block.
C5_VarInBlockDoesNotModifyOuter ==
    \A d \in 1..MaxNest, outer \in InputValues, inner \in InputValues :
        line = ShadowScript(d, outer, inner) =>
            /\ result.kind = "Ok"
            /\ Get(environment, "x") = [some |-> TRUE, value |-> outer]
            /\ Prints(out) = <<Display(outer)>>

\* C6: an assignment `x = v` executed inside a block, at any nesting depth,
\* to a variable bound in an enclosing scope changes that variable: once the
\* block has completed, reading x in the enclosing scope yields v.  (A line
\* of a session whose environment binds the name; and a block in a function
\* body, an if branch or a loop body of a program.)
C6_AssignmentInBlockChangesOuter ==
    [][/\ \A d \in 1..MaxNest, name \in VarNames, value \in InputValues :
            (line' = BlockAssignLine(d, name, value) /\ lines' = lines + 1
                /\ Get(environment, name).some) =>
                /\ result'.kind = "Ok"
                /\ Get(environment', name) = [some |-> TRUE, value |-> value]
       /\ \A shape \in AssignShapes, d \in 1..MaxNest, value \in InputValues :
            (line' = NestedAssignScript(shape, d, value) /\ lines' = lines + 1) =>
                /\ result'.kind = "Ok"
                /\ Prints(out') = <<Display(value)>>]_vars

\* C6 happens: a session declares x and then assigns it in the deepest block
C6_Witness ==
    \E value \in InputValues :
        /\ line = BlockAssignLine(MaxNest, "x", value)
        /\ lines = 2
        /\ result.kind = "Ok"
        /\ Get(environment, "x") = [some |-> TRUE, value |-> value]

\* C7: `return e` anywhere inside a function body - in a block, an if branch
\* or a while loop - ends the call at once with the value of e: no later
\* statement of the body runs, the loop stops, and a recursion whose base
\* case is `if (c) return v;` ends.
C7_ReturnEndsTheCall ==
    \A shape \in ReturnShapes :
        line = ReturnScript(shape) =>
            /\ result.kind = "Ok"
            /\ Prints(out) = <<Digits(1)>>

\* C8: after the first RuntimeError of a run, including one in a while
\* condition or a while body, no further statement runs and interpret
\* returns failure.
C8_FirstRuntimeErrorHalts ==
    \A shape \in ErrorShapes :
        line = ErrorScript(shape) =>
            /\ result.kind = "Err"
            /\ Reports(out) = <<UndefinedVariable("nosuch")>>
            /\ Prints(out) = <<>>

\* s repeated n times
RECURSIVE Repeat(_, _)
Repeat(s, n) == IF n = 0 THEN <<>> ELSE s \o Repeat(s, n - 1)

\* what NestedLoopsScript(n, m, k, _) is to print: n times the inner loop's
\* 0, 1, .. up to the break at k (or to m when it does not break) and then
\* "r"; and "done" after the loops
ExpectedNestedPrints(n, m, k) ==
    Repeat([j \in 1..(IF k < m THEN k ELSE m) |-> Digits(j - 1)] \o <<Chars("r")>>, n)
        \o <<Chars("done")>>

\* C9: a break in the body of an inner while loop ends only that loop: the
\* enclosing loop goes on with the rest of its body and with its further
\* iterations, and the statements after the loops run.
C9_BreakEndsInnermostLoopOnly ==
    \A n \in 1..MaxLoop, m \in 0..MaxLoop, k \in 0..MaxLoop, braced \in BOOLEAN :
        line = NestedLoopsScript(n, m, k, braced) =>
            /\ result.kind = "Ok"
            /\ Reports(out) = <<>>
            /\ Prints(out) = ExpectedNestedPrints(n, m, k)

\* C9 happens: two outer iterations, the inner loop broken at its second
\* iteration both times
C9_Witness ==
    /\ line = NestedLoopsScript(2, 2, 1, TRUE)
    /\ result.kind = "Ok"
    /\ Prints(out) = <<Digits(0), Chars("r"), Digits(0), Chars("r"), Chars("done")>>

\* the call on `line` of the callable that `callee` names, with args
CallsCallable(callee, args) ==
    /\ line' = CallLine(callee, args)
    /\ lines' = lines + 1
    /\ Get(environment, callee).some
    /\ Get(environment, callee).value.t = "Callable"

\* C10: a call with a number of arguments different from the callable's
\* number of parameters fails with a RuntimeError whose message names the
\* expected and the actual count, and the body does not run; with equal
\* counts the body runs with the arguments bound to the parameters by
\* position (the functions f print their parameters in order).
C10_ArityEnforced ==
    [][\A callee \in {"f", "clock"}, args \in ArgLists :
            CallsCallable(callee, args) =>
                IF Len(args) # arity(Get(environment, callee).value)
                THEN /\ result'.kind = "Err"
                     /\ Reports(out') =
                            <<ExpectedArguments(arity(Get(environment, callee).value), Len(args))>>
                     /\ Prints(out') = <<>>
                ELSE /\ result'.kind = "Ok"
                     /\ Reports(out') = <<>>
                     /\ callee = "f" => Prints(out') = [i \in 1..Len(args) |-> Display(args[i])]
                     /\ callee = "clock" => result'.val \in {Number(now) : now \in Times}]_vars

\* C10 happens: f has two parameters and is called with one argument
C10_Witness ==
    /\ line = CallLine("f", <<Number(1)>>)
    /\ result.kind = "Err"
    /\ Reports(out) = <<ExpectedArguments(2, 1)>>

\* C11: an assignment to a name that no frame of the chain binds fails with
\* a RuntimeError and leaves every frame as it was (no binding is created);
\* an assignment to a bound name updates the nearest frame that holds the
\* name, changes nothing else, and its value is the assigned value.
C11_AssignmentNeedsBoundName ==
    [][\A name \in VarNames \cup {"clock"}, value \in InputValues :
            (line' = AssignLine(name, value) /\ lines' = lines + 1) =>
                LET holders == {i \in 1..Len(environment) : name \in DOMAIN environment[i]}
                IN  IF holders = {}
                    THEN /\ result'.kind = "Err"
                         /\ Reports(out') = <<UndefinedVariable(name)>>
                         /\ environment' = environment
                    ELSE /\ result' = [kind |-> "Ok", val |-> value]
                         /\ Reports(out') = <<>>
                         /\ \E i \in holders :
                                /\ \A j \in holders : i <= j
                                /\ environment' = [environment EXCEPT ![i][name] = value]]_vars

\* C11 happens: a session assigns to x, which nothing has declared
C11_Witness ==
    /\ line = AssignLine("x", Number(1))
    /\ result.kind = "Err"
    /\ Reports(out) = <<UndefinedVariable("x")>>
    /\ ~Get(environment, "x").some

\* C12: interpret returns the value of the final statement of the list when
\* that is an expression statement, and Nil when the final statement is of
\* any other kind (print, var, block, if, while, function declaration).
C12_LastValueIsOfFinalStatement ==
    \A value \in InputValues, last \in LastKinds :
        line = LastValueScript(value, last) =>
            result = [kind |-> "Ok", val |-> IF last = "expression" THEN value ELSE Nil]

\* the texts written on the channel ch, in order
Written(o, ch) == [i \in 1..Len(SelectSeq(o, LAMBDA w : w.ch = ch)) |->
                        SelectSeq(o, LAMBDA w : w.ch = ch)[i].text]

\* C13: for every source text scan_tokens returns: either a token list that
\* ends in exactly one Eof, or a failure after a TokenError was reported.  It
\* never aborts, whatever the last bytes of the source are.
C13_ScanNeverAborts ==
    /\ scanned.kind \in {"None", "Ok", "Err"}
    /\ scanned.kind = "Ok" =>
            /\ scanned.tokens # <<>>
            /\ \A i \in 1..Len(scanned.tokens) :
                    scanned.tokens[i].t = "Eof" <=> i = Len(scanned.tokens)
    /\ scanned.kind = "Err" => Written(scanned.out, "TokenError") # <<>>

\* C14: a source that is one number lexeme (digits, optionally `.` and
\* digits) scans to exactly one Number token with the value of the whole
\* lexeme, and then Eof.
C14_NumberLexemeIsOneToken ==
    \A int \in DigitTexts, frac \in DigitTexts \cup {<<>>} :
        source = NumberText(int, frac, <<>>) /\ scanned.kind # "None" =>
            /\ scanned.kind = "Ok"
            /\ scanned.tokens = <<Token("Number", ParseF64(source)), Token("Eof", <<>>)>>

\* C15: a string literal whose closing delimiter is present scans to one
\* String token whose value is the text between the delimiters, wherever the
\* literal stands, also when the closing delimiter is the last byte of the
\* source; without the closing delimiter the scan fails with the
\* `Unterminated string` TokenError.
C15_ClosedStringIsOneToken ==
    \A quote \in {"\"", "'"}, body \in BodyTexts, closed \in BOOLEAN, tail \in {<<>>, <<";">>} :
        source = StringText(<<>>, quote, body, closed, tail) /\ scanned.kind # "None" =>
            IF closed
            THEN /\ scanned.kind = "Ok"
                 /\ scanned.tokens =
                        <<Token("String", body)>>
                            \o (IF tail = <<>> THEN <<>> ELSE <<Token("Semicolon", <<>>)>>)
                            \o <<Token("Eof", <<>>)>>
            ELSE /\ scanned.kind = "Err"
                 /\ Written(scanned.out, "TokenError")
                        = <<<<"Unterminated string. Expected: ", quote>>>>

\* C16: `-=`, `+=` and `*=` scan to one compound-assign token and consume
\* exactly those two bytes: a+=1 gives Identifier(a), PlusEqual, Number(1),
\* Eof.
C16_CompoundAssignTakesTwoBytes ==
    \A operator \in {"+", "-", "*"}, digit \in 1..MaxNum, tail \in {<<>>, <<";">>} :
        source = CompoundText(operator, digit, tail) /\ scanned.kind # "None" =>
            /\ scanned.kind = "Ok"
            /\ scanned.tokens =
                    <<Token("Identifier", "a"),
                      Token(CASE operator = "+" -> "PlusEqual"
                              [] operator = "-" -> "MinusEqual"
                              [] operator = "*" -> "StarEqual", <<>>),
                      Token("Number", digit)>>
                        \o (IF tail = <<>> THEN <<>> ELSE <<Token("Semicolon", <<>>)>>)
                        \o <<Token("Eof", <<>>)>>

\* C17: after a ParserError in one statement the parser goes on with the
\* statements that follow, so a second malformed statement of the same
\* token sequence is reported too; the result is a failure that carries the
\* statements parsed before the failure.
C17_EveryMalformedStatementIsReported ==
    \A good \in 0..MaxGood, bad \in 2..MaxBad :
        source = StatementsText(good, bad) /\ parsed.kind # "None" =>
            /\ parsed.kind = "Err"
            /\ Len(Written(parsed.out, "ParserError")) = bad
            /\ parsed.statements = [i \in 1..good |-> SPrint(Num(1))]

\* C18: a for statement parses for every combination of present and absent
\* initializer I, condition C and increment U, and lowers to
\* { I; while (C) { B; U; } } with an absent I or U left out and an absent C
\* replaced by literal true; `for (I; C; ) B` is accepted.
C18_ForClausesAreOptional ==
    \A initializer \in BOOLEAN, condition \in BOOLEAN, increment \in BOOLEAN :
        source = ForText(initializer, condition, increment, FALSE) /\ scanned.kind = "Ok" =>
            LET body == IF increment
                        THEN SBlock(<<SBreak, Increment("i")>>)
                        ELSE SBreak
                loop == SWhile(IF condition THEN EBinary(EVariable("i"), "Less", Num(2))
                               ELSE ELiteral(Boolean(TRUE)), body)
            IN  /\ parsed.kind = "Ok"
                /\ Written(parsed.out, "ParserError") = <<>>
                /\ parsed.statements =
                        <<IF initializer THEN SBlock(<<SVar("i", Num(0)), loop>>) ELSE loop>>

\* C19: a prefix operator `!` or `-` and its operand parse to
\* Unary{op, right} without a ParserError, and prefix operators nest to the
\* right: !-x is Unary{!, Unary{-, x}}.
C19_PrefixOperatorsParse ==
    \A operators \in PrefixOperators, operand \in {<<"1">>, <<"t", "r", "u", "e">>} :
        source = PrefixText(operators, operand) /\ scanned.kind = "Ok" =>
            LET RECURSIVE Nested(_)
                Nested(i) ==
                    IF i > Len(operators)
                    THEN (IF operand = <<"1">> THEN Num(1) ELSE ELiteral(Boolean(TRUE)))
                    ELSE EUnary(IF operators[i] = "!" THEN "Bang" ELSE "Minus", Nested(i + 1))
            IN  /\ parsed.kind = "Ok"
                /\ Written(parsed.out, "ParserError") = <<>>
                /\ parsed.statements = <<SPrint(Nested(1))>>

\* C20: a op b op c parses to Binary{Binary{a, op, b}, op, c} with every
\* operand kept; a - b parses to Binary{a, Minus, b} and evaluates, for
\* numbers, to the difference a minus b.
C20_BinaryChainKeepsOperands ==
    \A operator \in {"+", "-", "*"}, operands \in Operands :
        source = BinaryText(operator, operands) /\ scanned.kind = "Ok" =>
            LET name == CASE operator = "+" -> "Plus"
                          [] operator = "-" -> "Minus"
                          [] operator = "*" -> "Star"
                RECURSIVE Chain(_)
                Chain(i) == IF i = 1 THEN Num(operands[1])
                            ELSE EBinary(Chain(i - 1), name, Num(operands[i]))
            IN  /\ parsed.kind = "Ok"
                /\ parsed.statements = <<SPrint(Chain(Len(operands)))>>
                /\ operator = "-" /\ Len(operands) = 2 =>
                        Prints(out) = <<NumberToString(operands[1] - operands[2])>>

\* C21: a chain of `or` operators, and likewise of `and` operators, is
\* consumed entirely by the expression parser and yields left-nested Logical
\* nodes; `and` binds tighter than `or`.
C21_LogicalChainsParse ==
    \A operators \in LogicalOperators :
        source = LogicalText(operators) /\ scanned.kind = "Ok" =>
            LET RECURSIVE AndChain(_, _), OrChain(_)
                \* the operands i..j, joined by `and`
                AndChain(i, j) ==
                    IF i = j THEN Num(i) ELSE ELogical(AndChain(i, j - 1), "And", Num(j))
                \* the operands 1..n
                OrChain(n) ==
                    LET ors == {k \in 1..(n - 1) : operators[k] = <<"o", "r">>}
                    IN  IF ors = {} THEN AndChain(1, n)
                        ELSE LET k == CHOOSE m \in ors : \A o \in ors : o <= m
                             IN  ELogical(OrChain(k), "Or", AndChain(k + 1, n))
            IN  /\ parsed.kind = "Ok"
                /\ parsed.statements = <<SPrint(OrChain(Len(operators) + 1))>>

\* C22: an expression followed by `;` parses as one expression statement
\* that consumes the `;`, whatever token the expression starts with, and
\* parsing continues with the statement after it.
C22_ExpressionStatementTakesSemicolon ==
    \A lead \in Leads :
        source = ExpressionText(lead) /\ scanned.kind = "Ok" =>
            /\ parsed.kind = "Ok"
            /\ parsed.statements =
                    <<SExpression(CASE lead = "identifier" -> EVariable("a")
                                    [] lead = "number" -> Num(1)
                                    [] lead = "string" -> ELiteral(String(<<"b">>))
                                    [] lead = "true" -> ELiteral(Boolean(TRUE))
                                    [] lead = "false" -> ELiteral(Boolean(FALSE))
                                    [] lead = "nil" -> ELiteral(Nil)
                                    [] lead = "paren" -> EGrouping(Num(1))),
                      SPrint(Num(1))>>

\* C23: the REPL loop terminates when standard input reaches end of file:
\* after a read has met the end of the input no further prompt is printed
\* and no further line is evaluated (each iteration of the loop prints one
\* prompt and, unless the read fails, evaluates one line).
C23_ReplStopsAtEndOfFile ==
    [][stdin = "eof" => lines' = lines]_vars

\* C24: after a block statement has finished, normally or by a runtime
\* error, the interpreter's current frame is the frame that was current
\* before the block was entered: the chain is as deep as before.
C24_BlockRestoresFrame ==
    [][\A d \in 1..MaxNest, name \in VarNames, value \in InputValues :
            (line' = BlockAssignLine(d, name, value) /\ lines' = lines + 1) =>
                Len(environment') = Len(environment)]_vars

\* C25: when a while loop finishes the loop-context flag has the value it
\* had before the loop started; so a break in an outer loop's body, after an
\* inner loop that has completed, ends the outer loop without the report
\* `Can not break outside of a loop.`.
C25_BreakAfterInnerLoop ==
    \A inner \in BOOLEAN :
        source = BreakText(inner) /\ parsed.kind = "Ok" =>
            /\ Reports(out) = <<>>
            /\ Prints(out) = <<<<"2">>>>
            /\ is_loop = FALSE

\* C26: Environment.bind(name, v) writes the nearest frame, from the
\* innermost outward, that already contains name, and changes no other
\* frame; when no frame of the chain contains name the binding is created in
\* the innermost frame, the one bind was called on, and no ancestor changes.
\* (Stmt::Var calls bind on the interpreter's current frame.)
C26_BindDefinesInInnermostFrame ==
    [][\A name \in VarNames, value \in InputValues :
            (line' = DeclareLine(name, value) /\ lines' = lines + 1) =>
                LET holders == {i \in 1..Len(environment) : name \in DOMAIN environment[i]}
                    target == IF holders = {} THEN 1
                              ELSE CHOOSE i \in holders : \A j \in holders : i <= j
                IN  environment' =
                        [i \in 1..Len(environment) |->
                            IF i = target THEN Insert(environment[i], name, value)
                            ELSE environment[i]]]_vars

\* C27: every argument of a call parses without a trailing `;`, whatever its
\* position and whatever precedes it, also an identifier-led argument that
\* contains or follows a nested call: f(g(1)), f(g(1), x).
C27_ArgumentsNeedNoSemicolon ==
    \A arguments \in ArgumentKinds :
        source = CallText(arguments) /\ scanned.kind = "Ok" =>
            LET Argument(i) ==
                    CASE arguments[i] = "number" -> Num(1)
                      [] arguments[i] = "identifier" -> EVariable("x")
                      [] arguments[i] = "call" -> CallOf("g", <<Num(1)>>)
            IN  /\ parsed.kind = "Ok"
                /\ parsed.statements =
                        <<SExpression(CallOf("f", [i \in 1..Len(arguments) |-> Argument(i)]))>>

\* C28: for every pair of values a and b, a != b evaluates to the boolean
\* negation of a == b; when exactly one side is Boolean(b) and the other a
\* number or a string, == yields b and != yields not b, in either order.
C28_BangEqualNegatesEqualEqual ==
    \A left \in Comparands, right \in Comparands :
        source = CompareText(left, right) =>
            LET true == <<"t", "r", "u", "e">>
                false == <<"f", "a", "l", "s", "e">>
                booleans == {"true", "false"}
                others == {"number", "other number", "string", "other string"}
                boolean == IF left \in booleans THEN left ELSE right
            IN  /\ result.kind = "Ok"
                /\ Prints(out) \in {<<true, false>>, <<false, true>>}
                /\ (left \in booleans /\ right \in others)
                        \/ (left \in others /\ right \in booleans) =>
                            Prints(out)[1] = LeadText(boolean)

\* C28 happens: 1 == true has printed true and 1 != true has printed false
C28_Witness ==
    /\ source = CompareText("number", "true")
    /\ result.kind = "Ok"
    /\ Prints(out) = <<<<"t", "r", "u", "e">>, <<"f", "a", "l", "s", "e">>>>

\* C29: a name first declared with `var` inside a block is bound only for
\* the duration of that block: after the block has ended, reading the name
\* in the enclosing scope, where it was never declared, is the RuntimeError
\* `Undefined variable`.
C29_BlockVariableEndsWithBlock ==
    \A d \in 1..MaxNest :
        source = BlockVarText(d) /\ parsed.kind = "Ok" =>
            /\ result.kind = "Err"
            /\ Reports(out) = <<UndefinedVariable("x")>>
            /\ Prints(out) = <<>>

\* C30: for a token sequence that ends in Eof, parse terminates and never
\* reads a token at an index beyond the final Eof: a successful parse leaves
\* the cursor at Eof, and an error path leaves it at most one beyond Eof,
\* where no further token is read before parse returns.
C30_ParseStaysWithinTokens ==
    scanned.kind = "Ok" /\ parsed.kind # "None" =>
        /\ scanned.tokens[Len(scanned.tokens)].t = "Eof"
        /\ parsed.kind \in {"Ok", "Err"}
        /\ parsed.kind = "Ok" => parsed.current = Len(scanned.tokens) - 1
        /\ parsed.kind = "Err" => parsed.current <= Len(scanned.tokens)

\* C30 happens: a source that ends inside a statement has moved the cursor
\* beyond Eof on the error path
C30_Witness ==
    /\ scanned.kind = "Ok"
    /\ parsed.kind = "Err"
    /\ Written(parsed.out, "ParserError") # <<>>
    /\ parsed.current = Len(scanned.tokens)

====
